---- MODULE Spec2Model ----
(***************************************************************************)
(* A model of gcal (jimallen/gcal), a Google Calendar command-line client: *)
(* the event pipeline of client.go (convertEvent, extractMeetingURL, the   *)
(* merge/sort of FetchTodayEvents and FetchUpcomingEvents, detectConflicts)*)
(* the response constructors of types.go, and the credential store, token   *)
(* store and session of oauth.go.                                          *)
(*                                                                         *)
(* Go strings are TLA+ strings, read character by character with SubSeq;   *)
(* a Go pointer that may be nil is a record with a `present` field.        *)
(***************************************************************************)
EXTENDS Integers, Sequences, FiniteSets, TLC

VARIABLES
    input,        \* pure-function harness: the argument drawn in Init
    output,       \* pure-function harness: the value the function returned
    stage,        \* pure-function harness: "drawn" | "applied" | "off"
    pc,           \* fetch: "idle" | "querying" | "done" | "panicked" | "listed"
    op,           \* fetch: the running operation and the copy of it
    idsArg,       \* fetch: the calendar ids the caller passed
    calendarIDs,  \* fetch: the calendar ids queried (after defaulting)
    idx,          \* fetch: index of the next calendar to query
    queried,      \* fetch: history, the API requests issued, in order
    allEvents,    \* fetch: converted events gathered so far
    errors,       \* fetch: per-calendar error messages gathered so far
    discovered,   \* fetch: history, the raw items the provider returned, in order
    failed,       \* fetch: history, the calendars whose query failed, in order
    response,     \* fetch: the Response returned
    configDir,    \* files: the config directory, "present" | "absent" | "unresolved"
    credFile,     \* files: gcal-credentials.json in the config directory
    dataDir,      \* files: the data directory, "present" | "absent" | "unavailable"
    tokFile,      \* files: gcal-tokens.json in the data directory
    httpRequests, \* session: requests the running call sent to the token endpoint
    stderr,       \* session: lines the running call wrote to standard error
    oauthCopy,    \* flow: the copy of oauth.go that runs, by the line of RunAuthFlow
    flowPC,       \* flow: where RunAuthFlow is, "off" when it is not modelled
    selected,     \* flow: the case the select took, with the value received
    listener,     \* flow: the callback listener, "unbound" | "open" | "closed"
    serve,        \* flow: the goroutine of server.Serve
    routes,       \* flow: the patterns registered on http.DefaultServeMux
    conns,        \* flow: the callback requests accepted, with their handlers
    codeChan,     \* flow: the buffer of codeChan (one slot)
    errChan,      \* flow: the buffer of errChan (one slot)
    history,      \* flow: what the invocation did (binds, browser, exchanges)
    flowErr,      \* flow: the error RunAuthFlow returned, "" for nil
    saving        \* write: a SaveToken in progress, system call by system call

fnVars == <<input, output, stage>>
fetchVars == <<pc, op, idsArg, calendarIDs, idx, queried, allEvents, errors,
               discovered, failed, response>>
authVars == <<configDir, credFile, dataDir, tokFile, httpRequests, stderr>>
flowVars == <<oauthCopy, flowPC, selected, listener, serve, routes, conns, codeChan,
              errChan, history, flowErr, saving>>
vars == <<input, output, stage, pc, op, idsArg, calendarIDs, idx, queried, allEvents,
          errors, discovered, failed, response, configDir, credFile, dataDir,
          tokFile, httpRequests, stderr, oauthCopy, flowPC, selected, listener,
          serve, routes, conns, codeChan, errChan, history, flowErr, saving>>

(***************************************************************************)
(* Strings.                                                                *)
(***************************************************************************)

\* The i-th byte of a string, as a one-character string.
Char(s, i) == SubSeq(s, i, i)

\* The printable ASCII characters in code order: space (32) to underscore (95),
\* and "a" (97) to tilde (126).  The backquote (96) cannot be written in a
\* TLA+ string and occurs in no text of the model.
AsciiLow ==
    " !\"#$%&'()*+,-./0123456789:;<=>?@ABCDEFGHIJKLMNOPQRSTUVWXYZ[\\]^_"

AsciiHigh == "abcdefghijklmnopqrstuvwxyz{|}~"

AsciiChars == {Char(AsciiLow, i) : i \in 1..Len(AsciiLow)}
                  \cup {Char(AsciiHigh, i) : i \in 1..Len(AsciiHigh)}

\* Byte value of a printable character.
OrdMap == [c \in AsciiChars |->
             IF \E i \in 1..Len(AsciiLow) : Char(AsciiLow, i) = c
             THEN 31 + (CHOOSE i \in 1..Len(AsciiLow) : Char(AsciiLow, i) = c)
             ELSE 96 + (CHOOSE i \in 1..Len(AsciiHigh) : Char(AsciiHigh, i) = c)]

Ord(c) == OrdMap[c]

\* Go's `a < b` on strings: bytewise lexicographic order, a proper prefix first.
RECURSIVE StrLessFrom(_, _, _)
StrLessFrom(a, b, i) ==
    IF i > Len(b) THEN FALSE
    ELSE IF i > Len(a) THEN TRUE
    ELSE IF Char(a, i) = Char(b, i) THEN StrLessFrom(a, b, i + 1)
    ELSE Ord(Char(a, i)) < Ord(Char(b, i))

Digits == {"0", "1", "2", "3", "4", "5", "6", "7", "8", "9"}

DigitVal(c) == Ord(c) - Ord("0")

\* strings.Join(elems, sep)
RECURSIVE Join(_, _)
Join(elems, sep) ==
    IF Len(elems) = 0 THEN ""
    ELSE IF Len(elems) = 1 THEN elems[1]
    ELSE elems[1] \o sep \o Join(Tail(elems), sep)

(***************************************************************************)
(* time.Parse(time.RFC3339, s): layout 2006-01-02T15:04:05Z07:00.          *)
(* The result is [ok, instant]; instant counts seconds from                *)
(* 2000-01-01T00:00:00Z.  Fractional seconds, which Parse also accepts,    *)
(* are outside the inputs drawn here and are rejected by this operator.    *)
(***************************************************************************)

TwoDigits(s, i) ==
    IF Char(s, i) \in Digits /\ Char(s, i + 1) \in Digits
    THEN 10 * DigitVal(Char(s, i)) + DigitVal(Char(s, i + 1))
    ELSE -1

FourDigits(s, i) ==
    IF TwoDigits(s, i) >= 0 /\ TwoDigits(s, i + 2) >= 0
    THEN 100 * TwoDigits(s, i) + TwoDigits(s, i + 2)
    ELSE -1

IsLeap(y) == y % 4 = 0 /\ (y % 100 # 0 \/ y % 400 = 0)

DaysIn(m, y) ==
    IF m = 2 THEN (IF IsLeap(y) THEN 29 ELSE 28)
    ELSE IF m \in {4, 6, 9, 11} THEN 30
    ELSE 31

\* Days from 2000-01-01 to the civil date y-m-d (proleptic Gregorian).
DaysFromCivil(y, m, d) ==
    LET yy  == IF m <= 2 THEN y - 1 ELSE y
        era == yy \div 400
        yoe == yy - era * 400
        mp  == IF m > 2 THEN m - 3 ELSE m + 9
        doy == (153 * mp + 2) \div 5 + d - 1
        doe == yoe * 365 + yoe \div 4 - yoe \div 100 + doy
    IN  era * 146097 + doe - 730425

ParseFailed == [ok |-> FALSE, instant |-> 0]

\* The zone of an RFC3339 string starting at byte 20: "Z", or a sign, two
\* digits, a colon and two digits.  [ok, seconds east of UTC].
ParseZone(s) ==
    IF Len(s) = 20 /\ Char(s, 20) = "Z" THEN [ok |-> TRUE, offset |-> 0]
    ELSE IF /\ Len(s) = 25
            /\ Char(s, 20) \in {"+", "-"}
            /\ Char(s, 23) = ":"
            /\ TwoDigits(s, 21) >= 0 /\ TwoDigits(s, 21) <= 24
            /\ TwoDigits(s, 24) >= 0 /\ TwoDigits(s, 24) <= 60
         THEN [ok |-> TRUE,
               offset |-> (IF Char(s, 20) = "-" THEN -1 ELSE 1)
                          * (TwoDigits(s, 21) * 3600 + TwoDigits(s, 24) * 60)]
         ELSE [ok |-> FALSE, offset |-> 0]

ParseLayout(s) ==
    IF Len(s) < 20 THEN ParseFailed
    ELSE
      LET year  == FourDigits(s, 1)
          month == TwoDigits(s, 6)
          day   == TwoDigits(s, 9)
          hour  == TwoDigits(s, 12)
          min   == TwoDigits(s, 15)
          sec   == TwoDigits(s, 18)
          zone  == ParseZone(s)
      IN  IF /\ year >= 0
             /\ Char(s, 5) = "-" /\ month >= 1 /\ month <= 12
             /\ Char(s, 8) = "-" /\ day >= 1
             /\ Char(s, 11) = "T" /\ hour >= 0 /\ hour < 24
             /\ Char(s, 14) = ":" /\ min >= 0 /\ min < 60
             /\ Char(s, 17) = ":" /\ sec >= 0 /\ sec < 60
             /\ zone.ok
             /\ day <= DaysIn(month, year)
          THEN [ok |-> TRUE,
                instant |-> DaysFromCivil(year, month, day) * 86400
                            + hour * 3600 + min * 60 + sec - zone.offset]
          ELSE ParseFailed

\* The timestamp strings that occur in the events drawn below, with their
\* parse results computed once.
Timestamps ==
    { "", "invalid-time",
      "2024-01-15T14:00:00Z", "2024-01-15T14:15:00Z", "2024-01-15T14:30:00Z",
      "2024-01-15T15:00:00Z", "2024-01-15T15:30:00Z", "2024-01-15T16:00:00Z",
      "2024-01-15T17:00:00Z", "2024-01-15T18:00:00Z",
      "2024-01-15T16:00:00+01:00", "2024-01-15T17:00:00+01:00",
      "2024-01-15T15:30:00+02:00", "2024-01-15T16:30:00+02:00" }

ParseTable == [s \in Timestamps |-> ParseLayout(s)]

ParseRFC3339(s) == IF s \in Timestamps THEN ParseTable[s] ELSE ParseLayout(s)

\* The order of the timestamp strings, computed once.
StrLessTable == [a \in Timestamps |-> [b \in Timestamps |-> StrLessFrom(a, b, 1)]]

StrLess(a, b) ==
    IF a \in Timestamps /\ b \in Timestamps THEN StrLessTable[a][b]
    ELSE StrLessFrom(a, b, 1)

(***************************************************************************)
(* types.go: Event.                                                        *)
(***************************************************************************)

Event(id, title, start, end, attendees, count, url, conflict, status) ==
    [ID |-> id, Title |-> title, Start |-> start, End |-> end,
     Attendees |-> attendees, AttendeeCount |-> count, MeetingURL |-> url,
     HasConflict |-> conflict, ResponseStatus |-> status]

(***************************************************************************)
(* client.go: detectConflicts.                                             *)
(***************************************************************************)

\* The decision taken for the pair (events[i], events[j]) = (a, b): the four
\* timestamps parse, and a ends after b starts and a starts before b ends.
PairConflictClosed(a, b) ==
    LET startI == ParseRFC3339(a.Start)
        endI   == ParseRFC3339(a.End)
        startJ == ParseRFC3339(b.Start)
        endJ   == ParseRFC3339(b.End)
    IN  /\ startI.ok /\ endI.ok /\ startJ.ok /\ endJ.ok
        /\ endI.instant >= startJ.instant
        /\ startI.instant <= endJ.instant

PairConflict(a, b) ==
    LET startI == ParseRFC3339(a.Start)
        endI   == ParseRFC3339(a.End)
        startJ == ParseRFC3339(b.Start)
        endJ   == ParseRFC3339(b.End)
    IN  IF ~startI.ok \/ ~endI.ok \/ ~startJ.ok \/ ~endJ.ok
        THEN FALSE                                     \* continue
        ELSE endI.instant > startJ.instant             \* endI.After(startJ)
             /\ startI.instant < endJ.instant          \* startI.Before(endJ)

\* The inner loop, for j := i + 1; j < len(events); j++.
RECURSIVE detectInner(_, _, _)
detectInner(events, i, j) ==
    IF j > Len(events) THEN events
    ELSE IF PairConflict(events[i], events[j])
         THEN detectInner([events EXCEPT ![i].HasConflict = TRUE,
                                         ![j].HasConflict = TRUE], i, j + 1)
         ELSE detectInner(events, i, j + 1)

\* The outer loop, for i := range events.
RECURSIVE detectOuter(_, _)
detectOuter(events, i) ==
    IF i > Len(events) THEN events
    ELSE detectOuter(detectInner(events, i, i + 1), i + 1)

\* A pass that gives up at the first pair with an unparsable timestamp.
RECURSIVE detectAbortFrom(_, _, _)
detectAbortFrom(events, i, j) ==
    IF i > Len(events) THEN events
    ELSE IF j > Len(events) THEN detectAbortFrom(events, i + 1, i + 2)
    ELSE IF \E s \in {events[i].Start, events[i].End, events[j].Start, events[j].End} :
                ~ParseRFC3339(s).ok
         THEN events
    ELSE IF PairConflict(events[i], events[j])
         THEN detectAbortFrom([events EXCEPT ![i].HasConflict = TRUE,
                                             ![j].HasConflict = TRUE], i, j + 1)
         ELSE detectAbortFrom(events, i, j + 1)

detectConflictsAborting(events) == detectAbortFrom(events, 1, 2)

\* A pass that flags only the earlier member of a conflicting pair.
detectConflictsOneSided(events) ==
    [k \in 1..Len(events) |->
        [events[k] EXCEPT !.HasConflict =
            @ \/ \E j \in (k + 1)..Len(events) : PairConflict(events[k], events[j])]]

\* A pass that clears the flags before it sets them.
detectConflictsResetting(events) ==
    detectOuter([k \in 1..Len(events) |-> [events[k] EXCEPT !.HasConflict = FALSE]], 1)

detectConflicts(events) == detectOuter(events, 1)

(***************************************************************************)
(* Inputs of the conflict pass.                                            *)
(***************************************************************************)

MaxEvents == 3

SeqsUpTo(S, n) == UNION {[1..k -> S] : k \in 0..n}

Timed(id, start, end, conflict) ==
    Event(id, id, start, end, <<"Bob">>, 1, "", conflict, "accepted")

\* Intervals that overlap, touch (also across UTC offsets: 16:00+01:00 is
\* 15:00Z), are empty, or carry a timestamp that does not parse.
ConflictEvents ==
    { Timed("a", "2024-01-15T14:00:00Z", "2024-01-15T15:00:00Z", FALSE),
      Timed("b", "2024-01-15T14:30:00Z", "2024-01-15T15:30:00Z", FALSE),
      Timed("c", "2024-01-15T15:00:00Z", "2024-01-15T16:00:00Z", FALSE),
      Timed("d", "2024-01-15T16:00:00+01:00", "2024-01-15T17:00:00+01:00", FALSE),
      Timed("e", "invalid-time", "2024-01-15T15:00:00Z", FALSE),
      Timed("f", "2024-01-15T14:00:00Z", "invalid-time", FALSE),
      Timed("g", "2024-01-15T14:30:00Z", "2024-01-15T14:30:00Z", FALSE),
      Timed("h", "2024-01-15T14:15:00Z", "", FALSE),
      Timed("i", "2024-01-15T17:00:00Z", "2024-01-15T18:00:00Z", TRUE) }

FetchOff ==
    /\ pc = "off" /\ op = "" /\ calendarIDs = <<>> /\ idx = 0
    /\ idsArg = <<>> /\ queried = <<>>
    /\ allEvents = <<>> /\ errors = <<>> /\ discovered = <<>> /\ failed = <<>>
    /\ response = "none"

\* A file is [kind, mode, data]; NoFile is the file that does not exist.
File(mode, data) == [kind |-> "file", mode |-> mode, data |-> data]

NoFile == [kind |-> "absent", mode |-> "", data |-> ""]

AuthOff ==
    /\ configDir = "absent" /\ credFile = NoFile
    /\ dataDir = "absent" /\ tokFile = NoFile
    /\ httpRequests = 0 /\ stderr = <<>>

\* The case a select took: "none" before it returns.
Selected(case, val) == [case |-> case, val |-> val]

\* What one invocation of RunAuthFlow did.
NoHistory ==
    [invocation |-> 0, binds |-> 0, browser |-> 0, exchanged |-> <<>>,
     sent |-> <<>>, deadline |-> FALSE, before |-> NoFile]

NoSave == [pc |-> "off", data |-> "", written |-> 0, seen |-> <<>>]

\* The values of the authorization flow's variables where it does not run.
FlowOff ==
    /\ oauthCopy = "" /\ flowPC = "off" /\ selected = Selected("none", "")
    /\ listener = "unbound" /\ serve = "none" /\ routes = {} /\ conns = <<>>
    /\ codeChan = <<>> /\ errChan = <<>> /\ history = NoHistory /\ flowErr = ""
    /\ saving = NoSave

InitConflicts ==
    /\ input \in SeqsUpTo(ConflictEvents, MaxEvents)
    /\ output = <<>>
    /\ stage = "drawn"
    /\ FetchOff
    /\ AuthOff
    /\ FlowOff

ApplyDetectConflicts ==
    /\ stage = "drawn"
    /\ output' = detectConflicts(input)
    /\ stage' = "applied"
    /\ UNCHANGED <<input, fetchVars, authVars, flowVars>>

NextConflicts == ApplyDetectConflicts

SpecConflicts == InitConflicts /\ [][NextConflicts]_vars

Parses(e) == ParseRFC3339(e.Start).ok /\ ParseRFC3339(e.End).ok

StartOf(e) == ParseRFC3339(e.Start).instant
EndOf(e) == ParseRFC3339(e.End).instant

\* Open-interval overlap of two events whose timestamps all parse.
Overlap(a, b) ==
    /\ Parses(a) /\ Parses(b)
    /\ EndOf(a) > StartOf(b) /\ StartOf(a) < EndOf(b)

MergedList(events) == \A k \in 1..Len(events) : ~events[k].HasConflict

\* C1: after detectConflicts over a merged event list (every flag false), an
\* event is flagged iff the list holds another event such that all four
\* timestamps parse and the two intervals overlap openly; so both members of
\* every such pair are flagged.
C1_FlagIffOverlap ==
    (stage = "applied" /\ MergedList(input)) =>
        /\ Len(output) = Len(input)
        /\ \A k \in 1..Len(input) :
              output[k].HasConflict <=>
                  \E j \in 1..Len(input) : j # k /\ Overlap(input[k], input[j])

C1_Witness ==
    /\ stage = "applied" /\ MergedList(input) /\ Len(input) = 3
    /\ output[1].HasConflict /\ output[2].HasConflict /\ ~output[3].HasConflict
    /\ Parses(input[3])

\* a ends at the instant b starts, or b ends at the instant a starts.
Touching(a, b) ==
    \/ /\ ParseRFC3339(a.End).ok /\ ParseRFC3339(b.Start).ok
       /\ EndOf(a) = StartOf(b)
    \/ /\ ParseRFC3339(b.End).ok /\ ParseRFC3339(a.Start).ok
       /\ EndOf(b) = StartOf(a)

Unflagged(e) == [e EXCEPT !.HasConflict = FALSE]

\* C2: for all pairs of events A, B the conflict decision is symmetric,
\* conflict(A,B) = conflict(B,A), also as the flags the pass leaves on <<A,B>>
\* and on <<B,A>>; and it is false whenever A ends exactly when B starts or B
\* ends exactly when A starts.  Every ordered pair of events is drawn as a
\* list of two.
C2_SymmetricNoTouch ==
    (stage = "applied" /\ Len(input) <= 2) =>
        \A i, j \in 1..Len(input) :
            LET a  == Unflagged(input[i])
                b  == Unflagged(input[j])
                ab == detectConflicts(<<a, b>>)
                ba == detectConflicts(<<b, a>>)
            IN  /\ PairConflict(a, b) = PairConflict(b, a)
                /\ ab[1].HasConflict = ba[2].HasConflict
                /\ ab[2].HasConflict = ba[1].HasConflict
                /\ ab[1].HasConflict = PairConflict(a, b)
                /\ Touching(a, b) =>
                      ~PairConflict(a, b) /\ ~ab[1].HasConflict /\ ~ab[2].HasConflict

C2_Witness ==
    /\ stage = "applied" /\ Len(input) = 2
    /\ Parses(input[1]) /\ Parses(input[2])
    /\ input[1].End # input[2].Start
    /\ EndOf(input[1]) = StartOf(input[2])
    /\ StartOf(input[1]) < EndOf(input[1])
    /\ ~output[1].HasConflict /\ ~output[2].HasConflict

\* C3: a pair with a timestamp that does not parse sets no flag (an event is
\* flagged only on account of a partner with which all four timestamps
\* parse), the pass runs to its end, and every pair of well-formed
\* overlapping events is flagged also when a malformed event is in the list.
C3_MalformedPairSkipped ==
    (stage = "applied" /\ MergedList(input)) =>
        /\ Len(output) = Len(input)
        /\ \A k \in 1..Len(input) :
              /\ ~Parses(input[k]) => ~output[k].HasConflict
              /\ output[k].HasConflict =>
                    \E j \in 1..Len(input) :
                        j # k /\ Parses(input[k]) /\ Parses(input[j])
        /\ \A i, j \in 1..Len(input) :
              (i # j /\ Overlap(input[i], input[j])) =>
                  output[i].HasConflict /\ output[j].HasConflict

C3_Witness ==
    /\ stage = "applied" /\ MergedList(input) /\ Len(input) = 3
    /\ ~Parses(input[1]) /\ ~output[1].HasConflict
    /\ Overlap(input[2], input[3])
    /\ output[2].HasConflict /\ output[3].HasConflict

(***************************************************************************)
(* client.go: meetingPatterns and regexp.FindString.                       *)
(* Each pattern is https:// , an optional [a-z0-9.-]* , a literal host     *)
(* ending in "/" , and one or more characters of a tail class.             *)
(***************************************************************************)

LowerChars == {Char(AsciiHigh, i) : i \in 1..26}

Whitespace == {" ", "\t", "\n", "\f", "\r"}

\* Membership of a character in a class of the patterns:
\*   "host"  [a-z0-9.-]     "slug"  [a-z0-9-]     "url"  [^\s<>"]
InClass(c, class) ==
    IF class = "host" THEN c \in LowerChars \cup Digits \cup {".", "-"}
    ELSE IF class = "slug" THEN c \in LowerChars \cup Digits \cup {"-"}
    ELSE c \notin Whitespace \cup {"<", ">", "\""}

\* The patterns in another order: webex before zoom.
meetingPatternsReordered ==
    << [star |-> TRUE,  host |-> "webex.com/",           tail |-> "url"],
       [star |-> FALSE, host |-> "meet.google.com/",     tail |-> "slug"],
       [star |-> FALSE, host |-> "teams.microsoft.com/", tail |-> "url"],
       [star |-> TRUE,  host |-> "zoom.us/",             tail |-> "url"] >>

meetingPatterns ==
    << [star |-> TRUE,  host |-> "zoom.us/",             tail |-> "url"],
       [star |-> FALSE, host |-> "meet.google.com/",     tail |-> "slug"],
       [star |-> FALSE, host |-> "teams.microsoft.com/", tail |-> "url"],
       [star |-> TRUE,  host |-> "webex.com/",           tail |-> "url"] >>

HasPrefixAt(text, i, lit) ==
    /\ i + Len(lit) - 1 <= Len(text)
    /\ SubSeq(text, i, i + Len(lit) - 1) = lit

\* Index of the last character of the longest run of class characters that
\* starts at j (j - 1 when the run is empty).
RECURSIVE RunEnd(_, _, _)
RunEnd(text, j, class) ==
    IF j <= Len(text) /\ InClass(Char(text, j), class)
    THEN RunEnd(text, j + 1, class)
    ELSE j - 1

\* Index of the last character of the pattern's match that starts at i, or 0
\* when no match starts at i.  The star is greedy: of the places where the
\* host literal can follow it, the rightmost is taken; the tail is greedy.
MatchEndAt(p, text, i) ==
    IF ~HasPrefixAt(text, i, "https://") THEN 0
    ELSE
      LET j     == i + Len("https://")
          r     == IF p.star THEN RunEnd(text, j, "host") ELSE j - 1
          cands == {m \in j..(r + 1) :
                       /\ HasPrefixAt(text, m, p.host)
                       /\ RunEnd(text, m + Len(p.host), p.tail) >= m + Len(p.host)}
      IN  IF cands = {} THEN 0
          ELSE LET m == CHOOSE c \in cands : \A d \in cands : d <= c
               IN  RunEnd(text, m + Len(p.host), p.tail)

\* pattern.FindString(text): the leftmost match, "" when there is none.
FindString(p, text) ==
    LET starts == {i \in 1..Len(text) : MatchEndAt(p, text, i) > 0}
    IN  IF starts = {} THEN ""
        ELSE LET i == CHOOSE c \in starts : \A d \in starts : c <= d
             IN  SubSeq(text, i, MatchEndAt(p, text, i))

\* strings.TrimSpace
RECURSIVE TrimSpace(_)
TrimSpace(str) ==
    IF Len(str) = 0 THEN str
    ELSE IF Char(str, 1) \in Whitespace THEN TrimSpace(SubSeq(str, 2, Len(str)))
    ELSE IF Char(str, Len(str)) \in Whitespace
         THEN TrimSpace(SubSeq(str, 1, Len(str) - 1))
    ELSE str

(***************************************************************************)
(* client.go: extractMeetingURL.                                           *)
(***************************************************************************)

\* for _, ep := range item.ConferenceData.EntryPoints, from index k: the Uri
\* of the first entry point of type video with a non-empty Uri, else "".
RECURSIVE videoEntryPointFrom(_, _)
videoEntryPointFrom(eps, k) ==
    IF k > Len(eps) THEN ""
    ELSE IF eps[k].EntryPointType = "video" /\ eps[k].Uri # "" THEN eps[k].Uri
    ELSE videoEntryPointFrom(eps, k + 1)

\* for _, pattern := range meetingPatterns, from index k.
RECURSIVE patternSearchFrom(_, _, _)
patternSearchFrom(patterns, searchIn, k) ==
    IF k > Len(patterns) THEN ""
    ELSE IF FindString(patterns[k], searchIn) # ""
         THEN TrimSpace(FindString(patterns[k], searchIn))
    ELSE patternSearchFrom(patterns, searchIn, k + 1)

\* A variant that looks at the description text before the hangout link.
extractMeetingURLTextFirst(item) ==
    LET found == patternSearchFrom(meetingPatterns,
                                   item.Description \o " " \o item.Location, 1)
    IN  IF found # "" THEN found
        ELSE IF item.HangoutLink # "" THEN item.HangoutLink
        ELSE IF item.ConferenceData.present
             THEN videoEntryPointFrom(item.ConferenceData.EntryPoints, 1)
        ELSE ""

extractMeetingURL(item) ==
    IF item.HangoutLink # "" THEN item.HangoutLink
    ELSE
      LET viaConference ==
              IF item.ConferenceData.present
              THEN videoEntryPointFrom(item.ConferenceData.EntryPoints, 1)
              ELSE ""
      IN  IF viaConference # "" THEN viaConference
          ELSE patternSearchFrom(meetingPatterns,
                                 item.Description \o " " \o item.Location, 1)

(***************************************************************************)
(* Raw provider events (calendar.Event): the fields the client reads.      *)
(* Start, End and ConferenceData are pointers: present = FALSE is nil.     *)
(***************************************************************************)

DateTimeOf(str) == [present |-> TRUE, DateTime |-> str]
NilDateTime == [present |-> FALSE, DateTime |-> ""]

Conference(eps) == [present |-> TRUE, EntryPoints |-> eps]
NilConference == [present |-> FALSE, EntryPoints |-> <<>>]

EntryPoint(type, uri) == [EntryPointType |-> type, Uri |-> uri]

Attendee(self, email, name, status) ==
    [Self |-> self, Email |-> email, DisplayName |-> name, ResponseStatus |-> status]

RawEvent(id, summary, status, start, end, attendees, hangout, conf, descr, loc) ==
    [Id |-> id, Summary |-> summary, Status |-> status, Start |-> start,
     End |-> end, Attendees |-> attendees, HangoutLink |-> hangout,
     ConferenceData |-> conf, Description |-> descr, Location |-> loc]

(***************************************************************************)
(* Inputs of extractMeetingURL.                                            *)
(***************************************************************************)

HangoutLinks == {"", "https://meet.google.com/abc-defg-hij"}

ConferenceDatas ==
    { NilConference,
      Conference(<<>>),
      Conference(<<EntryPoint("phone", "tel:+1-555-0100")>>),
      Conference(<<EntryPoint("video", "https://zoom.us/j/123456789")>>),
      Conference(<<EntryPoint("video", "")>>),
      Conference(<<EntryPoint("video", ""),
                   EntryPoint("video", "https://example.webex.com/meet/9")>>),
      Conference(<<EntryPoint("phone", "tel:+1-555-0100"),
                   EntryPoint("video", "https://zoom.us/j/123456789"),
                   EntryPoint("video", "https://teams.microsoft.com/l/2")>>) }

Descriptions ==
    { "",
      "Regular meeting with no link",
      "Join Zoom meeting: https://zoom.us/j/123456789",
      "WebEx: https://example.webex.com/meet/123 or https://meet.google.com/xyz-abcd-efg",
      "<a href=\"https://teams.microsoft.com/l/meetup-join/19%3ameeting_abc\">Join</a>" }

Locations == {"", "Room 4", "https://us02web.zoom.us/j/55"}

URLItems ==
    { RawEvent("event1", "Team Meeting", "confirmed",
               DateTimeOf("2024-01-15T14:00:00Z"), DateTimeOf("2024-01-15T15:00:00Z"),
               <<>>, h, c, d, l) :
        h \in HangoutLinks, c \in ConferenceDatas, d \in Descriptions, l \in Locations }

InitURL ==
    /\ input \in URLItems
    /\ output = ""
    /\ stage = "drawn"
    /\ FetchOff
    /\ AuthOff
    /\ FlowOff

ApplyExtractMeetingURL ==
    /\ stage = "drawn"
    /\ output' = extractMeetingURL(input)
    /\ stage' = "applied"
    /\ UNCHANGED <<input, fetchVars, authVars, flowVars>>

NextURL == ApplyExtractMeetingURL

SpecURL == InitURL /\ [][NextURL]_vars

\* The entry points of type video, and those of them with a non-empty Uri.
VideoEntryPoints(item) ==
    LET IsVideo(ep) == ep.EntryPointType = "video"
    IN  IF item.ConferenceData.present
        THEN SelectSeq(item.ConferenceData.EntryPoints, IsVideo)
        ELSE <<>>

UsableVideoEntryPoints(item) ==
    LET HasUri(ep) == ep.Uri # ""
    IN  SelectSeq(VideoEntryPoints(item), HasUri)

SearchText(item) == item.Description \o " " \o item.Location

\* The matches of the recognized meeting-host patterns in the text.
RecognizedURLs(item) ==
    {FindString(meetingPatterns[k], SearchText(item)) : k \in 1..Len(meetingPatterns)}
        \ {""}

IsSubstring(sub, text) ==
    \E i \in 1..(Len(text) + 1) : HasPrefixAt(text, i, sub)

\* C7 (as amended): extractMeetingURL returns the direct video link when it is
\* non-empty; otherwise the Uri of the first entry point whose type is video
\* and whose Uri is non-empty; otherwise a recognized meeting-host URL found
\* in description + " " + location; otherwise "".
C7_Precedence ==
    stage = "applied" =>
        /\ input.HangoutLink # "" => output = input.HangoutLink
        /\ (input.HangoutLink = "" /\ UsableVideoEntryPoints(input) # <<>>) =>
              output = UsableVideoEntryPoints(input)[1].Uri
        /\ (input.HangoutLink = "" /\ UsableVideoEntryPoints(input) = <<>>) =>
              IF RecognizedURLs(input) # {}
              THEN /\ output \in RecognizedURLs(input)
                   /\ IsSubstring(output, SearchText(input))
                   /\ HasPrefixAt(output, 1, "https://")
              ELSE output = ""

\* A direct link and a matching description URL: the direct link is returned.
C7_Witness ==
    /\ stage = "applied"
    /\ input.HangoutLink # ""
    /\ RecognizedURLs(input) # {}
    /\ output = input.HangoutLink
    /\ output \notin RecognizedURLs(input)

\* C7 as stated: step (2) returns the Uri of the first entry point whose type
\* is video, whatever that Uri is.
C7_AsStated ==
    stage = "applied" =>
        /\ input.HangoutLink # "" => output = input.HangoutLink
        /\ (input.HangoutLink = "" /\ VideoEntryPoints(input) # <<>>) =>
              output = VideoEntryPoints(input)[1].Uri

(***************************************************************************)
(* client.go: convertEvent.  The result is [kind, event]: kind "event" for *)
(* a record, "nil" for a discard, "panic" for a nil-pointer dereference of *)
(* item.Start or item.End.                                                 *)
(***************************************************************************)

NoEvent == Event("", "", "", "", <<>>, 0, "", FALSE, "")

Discarded == [kind |-> "nil", event |-> NoEvent]
Panicked == [kind |-> "panic", event |-> NoEvent]
Converted(e) == [kind |-> "event", event |-> e]

\* A scan that lists an attendee by display name only.
RECURSIVE scanAttendeesNoFallback(_, _, _)
scanAttendeesNoFallback(attendees, k, event) ==
    IF k > Len(attendees) THEN event
    ELSE IF attendees[k].Self
         THEN scanAttendeesNoFallback(attendees, k + 1,
                  [event EXCEPT !.ResponseStatus = attendees[k].ResponseStatus])
    ELSE IF attendees[k].Email # ""
         THEN scanAttendeesNoFallback(attendees, k + 1,
                  [event EXCEPT !.Attendees = Append(@, attendees[k].DisplayName)])
    ELSE scanAttendeesNoFallback(attendees, k + 1, event)

\* for _, attendee := range item.Attendees, from index k.
RECURSIVE scanAttendees(_, _, _)
scanAttendees(attendees, k, event) ==
    IF k > Len(attendees) THEN event
    ELSE
      LET attendee == attendees[k]
      IN  IF attendee.Self
          THEN scanAttendees(attendees, k + 1,
                   [event EXCEPT !.ResponseStatus = attendee.ResponseStatus])
          ELSE IF attendee.Email # ""
          THEN scanAttendees(attendees, k + 1,
                   [event EXCEPT !.Attendees =
                       Append(@, IF attendee.DisplayName = ""
                                 THEN attendee.Email
                                 ELSE attendee.DisplayName)])
          ELSE scanAttendees(attendees, k + 1, event)

\* A conversion without the check of the caller's own response status.
finishConvertAnyStatus(item, scanned) ==
    LET event == [scanned EXCEPT !.AttendeeCount = Len(scanned.Attendees)]
    IN  IF event.AttendeeCount = 0 THEN Discarded
        ELSE Converted([event EXCEPT !.MeetingURL = extractMeetingURL(item)])

\* The rest of convertEvent once the attendees are scanned.
finishConvert(item, scanned) ==
    LET event == [scanned EXCEPT !.AttendeeCount = Len(scanned.Attendees)]
    IN  IF event.AttendeeCount = 0 THEN Discarded
        ELSE IF event.ResponseStatus # "accepted" THEN Discarded
        ELSE Converted([event EXCEPT !.MeetingURL = extractMeetingURL(item)])

convertEvent(item) ==
    IF item.Status = "cancelled" THEN Discarded
    ELSE IF ~item.Start.present THEN Panicked
    ELSE IF item.Start.DateTime = "" THEN Discarded
    ELSE IF ~item.End.present THEN Panicked
    ELSE finishConvert(item,
             scanAttendees(item.Attendees, 1,
                 Event(item.Id, item.Summary, item.Start.DateTime,
                       item.End.DateTime, <<>>, 0, "", FALSE, "")))

(***************************************************************************)
(* Inputs of convertEvent.                                                 *)
(***************************************************************************)

MaxAttendees == 3

Statuses == {"confirmed", "cancelled"}

Starts == {NilDateTime, DateTimeOf(""), DateTimeOf("2024-01-15T14:00:00Z")}

Ends == {NilDateTime, DateTimeOf("2024-01-15T15:00:00Z")}

AttendeeEntries ==
    { Attendee(TRUE, "me@example.com", "Me", "accepted"),
      Attendee(TRUE, "me@example.com", "Me", "declined"),
      Attendee(FALSE, "bob@example.com", "Bob", "accepted"),
      Attendee(FALSE, "no-name@example.com", "", "needsAction"),
      Attendee(FALSE, "", "Room 4", "accepted"),
      Attendee(FALSE, "", "", "accepted") }

ConvertItems ==
    { RawEvent("event1", "Team Meeting", st, start, end, att,
               "", NilConference, d, "") :
        st \in Statuses, start \in Starts, end \in Ends,
        att \in SeqsUpTo(AttendeeEntries, MaxAttendees),
        d \in {"", "Join Zoom meeting: https://zoom.us/j/123456789"} }

InitConvert ==
    /\ input \in ConvertItems
    /\ output = Discarded
    /\ stage = "drawn"
    /\ FetchOff
    /\ AuthOff
    /\ FlowOff

ApplyConvertEvent ==
    /\ stage = "drawn"
    /\ output' = convertEvent(input)
    /\ stage' = "applied"
    /\ UNCHANGED <<input, fetchVars, authVars, flowVars>>

NextConvert == ApplyConvertEvent

SpecConvert == InitConvert /\ [][NextConvert]_vars

\* The non-self attendee entries with a non-empty address, in raw order.
QualifyingAttendees(item) ==
    LET Qualifies(a) == ~a.Self /\ a.Email # ""
    IN  SelectSeq(item.Attendees, Qualifies)

\* The self-flagged entries, in raw order.
SelfEntries(item) ==
    LET IsSelf(a) == a.Self
    IN  SelectSeq(item.Attendees, IsSelf)

\* The caller's own response status: that of the self-flagged entry (of the
\* last one, should the provider send several), "" when there is none.
SelfResponseStatus(item) ==
    IF SelfEntries(item) = <<>> THEN ""
    ELSE SelfEntries(item)[Len(SelfEntries(item))].ResponseStatus

\* C4: a raw event that is cancelled, or has no time-of-day start, or has no
\* qualifying attendee, or whose self response status is not "accepted" (also
\* when no entry is self-flagged) yields no record; with start and end
\* structures present the outcome is the discard.
C4_FilteredYieldNothing ==
    LET filtered ==
            \/ input.Status = "cancelled"
            \/ ~input.Start.present
            \/ input.Start.DateTime = ""
            \/ QualifyingAttendees(input) = <<>>
            \/ SelfResponseStatus(input) # "accepted"
        structured ==
            input.Status = "cancelled" \/ (input.Start.present /\ input.End.present)
    IN  (stage = "applied" /\ filtered) =>
            /\ output.kind # "event"
            /\ structured => output = Discarded

C4_Witness ==
    /\ stage = "applied"
    /\ input.Status = "confirmed"
    /\ input.Start.present /\ input.Start.DateTime # "" /\ input.End.present
    /\ QualifyingAttendees(input) # <<>>
    /\ SelfEntries(input) = <<>>
    /\ output = Discarded

\* C5: for every raw event that convertEvent emits, the attendee list is the
\* sequence, in raw order, of the non-self entries with a non-empty address,
\* each as its display name, or as its address when the display name is
\* empty; self-flagged entries and entries without address do not appear.
C5_AttendeeList ==
    (stage = "applied" /\ output.kind = "event") =>
        LET q == QualifyingAttendees(input)
        IN  /\ Len(output.event.Attendees) = Len(q)
            /\ \A k \in 1..Len(q) :
                  output.event.Attendees[k] =
                      IF q[k].DisplayName = "" THEN q[k].Email ELSE q[k].DisplayName

C5_Witness ==
    /\ stage = "applied" /\ output.kind = "event"
    /\ Len(input.Attendees) = 3
    /\ input.Attendees[2].Self
    /\ ~input.Attendees[1].Self /\ input.Attendees[1].Email = ""
    /\ output.event.Attendees = <<"no-name@example.com">>

(***************************************************************************)
(* types.go: error codes and response constructors.                        *)
(***************************************************************************)

ErrNotConfigured == "not_configured"
ErrTokenExpired == "token_expired"
ErrNetworkError == "network_error"
ErrAPIError == "api_error"

NewErrorResponse(code, message) ==
    [Success |-> FALSE, LastSync |-> "", Events |-> <<>>,
     Error |-> code, Message |-> message]

\* A success response without the time of the synchronisation.
NewSuccessResponseNoSync(events, now) ==
    [Success |-> TRUE, LastSync |-> "", Events |-> events,
     Error |-> "", Message |-> ""]

\* now is time.Now().Format(time.RFC3339).
NewSuccessResponse(events, now) ==
    [Success |-> TRUE, LastSync |-> now, Events |-> events,
     Error |-> "", Message |-> ""]

(***************************************************************************)
(* time.Time as oauth.go stores it: the wall clock reading with its zone   *)
(* offset.  off is in seconds east of UTC, ns in nanoseconds.              *)
(***************************************************************************)

Time(Y, M, D, h, m, s, ns, off) ==
    [Y |-> Y, M |-> M, D |-> D, h |-> h, m |-> m, s |-> s, ns |-> ns, off |-> off]

\* The zero time.Time, January 1, year 1, 00:00:00 UTC.
ZeroTime == Time(1, 1, 1, 0, 0, 0, 0, 0)

\* Seconds from 2000-01-01T00:00:00Z.
Unix(t) ==
    DaysFromCivil(t.Y, t.M, t.D) * 86400 + t.h * 3600 + t.m * 60 + t.s - t.off

DigitChar(d) == Char("0123456789", d + 1)

Pad2(n) == DigitChar(n \div 10) \o DigitChar(n % 10)

Pad4(n) == Pad2(n \div 100) \o Pad2(n % 100)

\* The decimal digits of n in a field of the given width.
RECURSIVE PadN(_, _)
PadN(n, width) ==
    IF width = 0 THEN "" ELSE PadN(n \div 10, width - 1) \o DigitChar(n % 10)

RECURSIVE TrimZeros(_)
TrimZeros(d) ==
    IF Len(d) > 0 /\ Char(d, Len(d)) = "0" THEN TrimZeros(SubSeq(d, 1, Len(d) - 1))
    ELSE d

\* The ".999999999" of RFC3339Nano: the fraction without trailing zeros,
\* nothing when it is zero.
FormatFraction(ns) == IF ns = 0 THEN "" ELSE "." \o TrimZeros(PadN(ns, 9))

\* The "Z07:00" of the layout.
FormatZone(off) ==
    IF off = 0 THEN "Z"
    ELSE LET a == IF off < 0 THEN -off ELSE off
         IN  (IF off < 0 THEN "-" ELSE "+")
                 \o Pad2(a \div 3600) \o ":" \o Pad2((a % 3600) \div 60)

\* t.Format(time.RFC3339Nano)
FormatRFC3339Nano(t) ==
    Pad4(t.Y) \o "-" \o Pad2(t.M) \o "-" \o Pad2(t.D) \o "T"
        \o Pad2(t.h) \o ":" \o Pad2(t.m) \o ":" \o Pad2(t.s)
        \o FormatFraction(t.ns) \o FormatZone(t.off)

\* The end of the run of digits that starts at byte i.
RECURSIVE DigitsEnd(_, _)
DigitsEnd(s, i) ==
    IF i <= Len(s) /\ Char(s, i) \in Digits THEN DigitsEnd(s, i + 1) ELSE i

\* The value of a digit string read as a fraction of 10^9.
RECURSIVE FractionValue(_, _)
FractionValue(d, scale) ==
    IF Len(d) = 0 \/ scale = 0 THEN 0
    ELSE DigitVal(Head(d)) * scale + FractionValue(Tail(d), scale \div 10)

\* Time.UnmarshalJSON on the text between the quotes: RFC3339 with an
\* optional fraction of a second.  [ok, time].
ParseTimeFields(s, j, plain, frac) ==
    IF ParseLayout(plain).ok /\ (j = 20 \/ Len(frac) >= 1)
    THEN [ok |-> TRUE,
          time |-> Time(FourDigits(s, 1), TwoDigits(s, 6), TwoDigits(s, 9),
                        TwoDigits(s, 12), TwoDigits(s, 15), TwoDigits(s, 18),
                        FractionValue(frac, 100000000), ParseZone(plain).offset)]
    ELSE [ok |-> FALSE, time |-> ZeroTime]

\* j is the byte after the fraction, 20 without one.
ParseTimeAt(s, j) ==
    ParseTimeFields(s, j,
                    IF Len(s) >= 20 THEN SubSeq(s, 1, 19) \o SubSeq(s, j, Len(s))
                    ELSE s,
                    IF j > 20 THEN SubSeq(s, 21, j - 1) ELSE "")

ParseTime(s) ==
    ParseTimeAt(s, IF Len(s) >= 21 /\ Char(s, 20) = "." THEN DigitsEnd(s, 21) ELSE 20)

(***************************************************************************)
(* encoding/json, as far as oauth.go uses it: json.MarshalIndent of a      *)
(* TokenStore and json.Unmarshal into a TokenStore or a Credentials.       *)
(***************************************************************************)

HexDigits == "0123456789abcdef"

HexEscape(c) ==
    "\\u00" \o Char(HexDigits, (Ord(c) \div 16) + 1) \o Char(HexDigits, (Ord(c) % 16) + 1)

\* An encoder that escapes nothing.
EscapeCharPlain(c) == c

\* The encoder's output for one byte of a string (HTML escaping on).
EscapeChar(c) ==
    CASE c = "\"" -> "\\\""
      [] c = "\\" -> "\\\\"
      [] c = "\n" -> "\\n"
      [] c = "\r" -> "\\r"
      [] c = "\t" -> "\\t"
      [] c \in {"<", ">", "&"} -> HexEscape(c)
      [] OTHER -> c

RECURSIVE EscapeFrom(_, _)
EscapeFrom(s, i) ==
    IF i > Len(s) THEN "" ELSE EscapeChar(Char(s, i)) \o EscapeFrom(s, i + 1)

\* A Go string as a JSON string.
EncodeString(s) == "\"" \o EscapeFrom(s, 1) \o "\""

\* Time.MarshalJSON: an error for a year outside [0, 9999].
MarshalTime(t) ==
    IF t.Y < 0 \/ t.Y > 9999 THEN [ok |-> FALSE, data |-> ""]
    ELSE [ok |-> TRUE, data |-> "\"" \o FormatRFC3339Nano(t) \o "\""]

\* json.MarshalIndent(store, "", "  ") of a TokenStore.
MarshalIndent(store) ==
    LET expiry == MarshalTime(store.expiry)
    IN  IF ~expiry.ok THEN [ok |-> FALSE, data |-> ""]
        ELSE [ok |-> TRUE,
              data |-> "{\n  \"access_token\": " \o EncodeString(store.access_token)
                       \o ",\n  \"refresh_token\": " \o EncodeString(store.refresh_token)
                       \o ",\n  \"token_type\": " \o EncodeString(store.token_type)
                       \o ",\n  \"expiry\": " \o expiry.data \o "\n}"]

JSONSpace == {" ", "\t", "\n", "\r"}

RECURSIVE SkipSpace(_, _)
SkipSpace(s, i) ==
    IF i <= Len(s) /\ Char(s, i) \in JSONSpace THEN SkipSpace(s, i + 1) ELSE i

HexVal(c) ==
    IF c \in Digits THEN DigitVal(c)
    ELSE IF c \in {"a", "b", "c", "d", "e", "f"} THEN Ord(c) - Ord("a") + 10
    ELSE IF c \in {"A", "B", "C", "D", "E", "F"} THEN Ord(c) - Ord("A") + 10
    ELSE -1

\* The character with the given code; "?" stands for every code that is not
\* printable ASCII (no text of the model holds one).
Chr(code) ==
    IF code >= 32 /\ code <= 95 THEN Char(AsciiLow, code - 31)
    ELSE IF code >= 97 /\ code <= 126 THEN Char(AsciiHigh, code - 96)
    ELSE "?"

\* The code of the \uXXXX escape whose digits start at byte i, -1 if malformed.
HexCode(s, i) ==
    IF i + 3 <= Len(s) /\ \A k \in 0..3 : HexVal(Char(s, i + k)) >= 0
    THEN 4096 * HexVal(Char(s, i)) + 256 * HexVal(Char(s, i + 1))
             + 16 * HexVal(Char(s, i + 2)) + HexVal(Char(s, i + 3))
    ELSE -1

JSONFail == [ok |-> FALSE, next |-> 0, val |-> [t |-> "none"]]

\* The rest of a JSON string whose opening quote has been read; acc is the
\* decoded text so far.  The escapes \b and \f are in no text of the model.
RECURSIVE ScanString(_, _, _)
ScanString(s, i, acc) ==
    IF i > Len(s) THEN JSONFail
    ELSE LET c == Char(s, i)
         IN  IF c = "\"" THEN [ok |-> TRUE, next |-> i + 1,
                               val |-> [t |-> "string", s |-> acc]]
             ELSE IF c \in {"\n", "\r", "\t"} THEN JSONFail
             ELSE IF c # "\\" THEN ScanString(s, i + 1, acc \o c)
             ELSE IF i + 1 > Len(s) THEN JSONFail
             ELSE LET e == Char(s, i + 1)
                  IN  IF e \in {"\"", "\\", "/"} THEN ScanString(s, i + 2, acc \o e)
                      ELSE IF e = "n" THEN ScanString(s, i + 2, acc \o "\n")
                      ELSE IF e = "r" THEN ScanString(s, i + 2, acc \o "\r")
                      ELSE IF e = "t" THEN ScanString(s, i + 2, acc \o "\t")
                      ELSE IF e = "u" /\ HexCode(s, i + 2) >= 0
                           THEN ScanString(s, i + 6, acc \o Chr(HexCode(s, i + 2)))
                      ELSE JSONFail

\* A JSON value starting at byte i: [ok, next, val].  val.t is one of
\* "string", "object", "array", "number", "bool", "null"; a string carries its
\* decoded text and an object its members <<key, value>> in order.
RECURSIVE ScanValue(_, _)
RECURSIVE ScanMembers(_, _, _)
RECURSIVE ScanElements(_, _, _)

ScanValue(s, i) ==
    IF i > Len(s) THEN JSONFail
    ELSE LET c == Char(s, i)
         IN  IF c = "\"" THEN ScanString(s, i + 1, "")
             ELSE IF c = "{" THEN
                 LET j == SkipSpace(s, i + 1)
                 IN  IF j <= Len(s) /\ Char(s, j) = "}"
                     THEN [ok |-> TRUE, next |-> j + 1,
                           val |-> [t |-> "object", members |-> <<>>]]
                     ELSE ScanMembers(s, j, <<>>)
             ELSE IF c = "[" THEN
                 LET j == SkipSpace(s, i + 1)
                 IN  IF j <= Len(s) /\ Char(s, j) = "]"
                     THEN [ok |-> TRUE, next |-> j + 1, val |-> [t |-> "array"]]
                     ELSE ScanElements(s, j, 0)
             ELSE IF HasPrefixAt(s, i, "null")
                  THEN [ok |-> TRUE, next |-> i + 4, val |-> [t |-> "null"]]
             ELSE IF HasPrefixAt(s, i, "true")
                  THEN [ok |-> TRUE, next |-> i + 4, val |-> [t |-> "bool"]]
             ELSE IF HasPrefixAt(s, i, "false")
                  THEN [ok |-> TRUE, next |-> i + 5, val |-> [t |-> "bool"]]
             ELSE IF c \in Digits \ {"0"}
                  THEN [ok |-> TRUE, next |-> DigitsEnd(s, i), val |-> [t |-> "number"]]
             ELSE IF c = "0"
                  THEN [ok |-> TRUE, next |-> i + 1, val |-> [t |-> "number"]]
             ELSE JSONFail

\* The members of an object from byte i, which is past the brace or a comma.
ScanMembersEnd(s, j, more) ==
    IF j > Len(s) THEN JSONFail
    ELSE IF Char(s, j) = "}"
         THEN [ok |-> TRUE, next |-> j + 1,
               val |-> [t |-> "object", members |-> more]]
    ELSE IF Char(s, j) = ","
         THEN ScanMembers(s, SkipSpace(s, j + 1), more)
    ELSE JSONFail

ScanMemberValue(s, key, v, acc) ==
    IF ~v.ok THEN JSONFail
    ELSE ScanMembersEnd(s, SkipSpace(s, v.next), Append(acc, <<key.val.s, v.val>>))

ScanMemberColon(s, key, col, acc) ==
    IF col > Len(s) \/ Char(s, col) # ":" THEN JSONFail
    ELSE ScanMemberValue(s, key, ScanValue(s, SkipSpace(s, col + 1)), acc)

ScanMemberKey(s, key, acc) ==
    IF ~key.ok THEN JSONFail
    ELSE ScanMemberColon(s, key, SkipSpace(s, key.next), acc)

ScanMembers(s, i, acc) ==
    IF i > Len(s) \/ Char(s, i) # "\"" THEN JSONFail
    ELSE ScanMemberKey(s, ScanString(s, i + 1, ""), acc)

\* The elements of an array from byte i; n counts them.
ScanElementsEnd(s, j, n) ==
    IF j > Len(s) THEN JSONFail
    ELSE IF Char(s, j) = "]"
         THEN [ok |-> TRUE, next |-> j + 1, val |-> [t |-> "array"]]
    ELSE IF Char(s, j) = ","
         THEN ScanElements(s, SkipSpace(s, j + 1), n + 1)
    ELSE JSONFail

ScanElement(s, v, n) ==
    IF ~v.ok THEN JSONFail ELSE ScanElementsEnd(s, SkipSpace(s, v.next), n)

ScanElements(s, i, n) == ScanElement(s, ScanValue(s, i), n)

\* The scanner's check that data is one JSON value and nothing else.
ScanWhole(data, v) ==
    IF v.ok /\ SkipSpace(data, v.next) = Len(data) + 1 THEN v ELSE JSONFail

ScanDocument(data) == ScanWhole(data, ScanValue(data, SkipSpace(data, 1)))

\* ASCII case folding of an object key.
FoldChar(c) ==
    IF c \in AsciiChars /\ Ord(c) >= 65 /\ Ord(c) <= 90
    THEN Char(AsciiHigh, Ord(c) - 64) ELSE c

RECURSIVE Fold(_)
Fold(s) == IF Len(s) = 0 THEN "" ELSE FoldChar(Head(s)) \o Fold(Tail(s))

\* The struct field an object key names: the exact tag, else a tag equal under
\* case folding, else "" (the member is ignored).
FieldFor(key, tags) ==
    IF key \in tags THEN key
    ELSE IF \E f \in tags : Fold(f) = Fold(key)
         THEN CHOOSE f \in tags : Fold(f) = Fold(key)
    ELSE ""

\* The members stored into the struct one after the other.  strings and times
\* are the tags of the string and time.Time fields; a null leaves the field
\* alone, a value of another type is an UnmarshalTypeError.
DecodeTime(acc, f, parsed) ==
    IF parsed.ok
    THEN [acc EXCEPT !.rec = [acc.rec EXCEPT ![f] = parsed.time]]
    ELSE [acc EXCEPT !.ok = FALSE]

DecodeMember(acc, f, v, strings, times) ==
    IF f = "" \/ v.t = "null" THEN acc
    ELSE IF f \in strings /\ v.t = "string"
         THEN [acc EXCEPT !.rec = [acc.rec EXCEPT ![f] = v.s]]
    ELSE IF f \in times /\ v.t = "string"
         THEN DecodeTime(acc, f, ParseTime(v.s))
    ELSE [acc EXCEPT !.ok = FALSE]

RECURSIVE DecodeMembers(_, _, _, _, _)
DecodeMembers(members, k, strings, times, acc) ==
    IF k > Len(members) THEN acc
    ELSE DecodeMembers(members, k + 1, strings, times,
                       DecodeMember(acc, FieldFor(members[k][1], strings \cup times),
                                    members[k][2], strings, times))

\* json.Unmarshal(data, &v) for a struct v that holds zero: a syntax error
\* for data that is not JSON, nothing stored for null, a type error for a
\* value that is not an object.  [ok, rec], rec indexed by the JSON tags.
DecodeDocument(doc, strings, times, zero) ==
    IF ~doc.ok THEN [ok |-> FALSE, rec |-> zero]
    ELSE IF doc.val.t = "null" THEN [ok |-> TRUE, rec |-> zero]
    ELSE IF doc.val.t # "object" THEN [ok |-> FALSE, rec |-> zero]
    ELSE DecodeMembers(doc.val.members, 1, strings, times,
                       [ok |-> TRUE, rec |-> zero])

Unmarshal(data, strings, times, zero) ==
    DecodeDocument(ScanDocument(data), strings, times, zero)

(***************************************************************************)
(* oauth.go (unnamed/part_001): the credential file, the token file and    *)
(* the session.  A file is [kind, mode, data]; a directory is "present",   *)
(* "absent", or cannot be had: the config directory "unresolved" (no       *)
(* XDG_CONFIG_HOME and no home directory), the data directory              *)
(* "unavailable" (unresolved, or os.MkdirAll fails).                       *)
(***************************************************************************)

\* Owner read and owner write permission of a mode.
Readable(mode) == mode \in {"0600", "0644", "0400"}
Writable(mode) == mode \in {"0600", "0644"}

\* os.ReadFile(path)
ReadFile(dir, file) ==
    IF dir # "present" \/ file.kind = "absent"
    THEN [err |-> "no such file or directory", data |-> ""]
    ELSE IF ~Readable(file.mode) THEN [err |-> "permission denied", data |-> ""]
    ELSE [err |-> "", data |-> file.data]

\* os.IsNotExist(err)
IsNotExist(err) == err = "no such file or directory"

\* os.WriteFile(path, data, 0600): an existing file is truncated and keeps
\* its mode, a new one gets the mode asked for.
WriteFile(file, data) ==
    IF file.kind = "absent" THEN [err |-> "", file |-> File("0600", data)]
    ELSE IF ~Writable(file.mode) THEN [err |-> "permission denied", file |-> file]
    ELSE [err |-> "", file |-> File(file.mode, data)]

credentialsPath == "~/.config/gcal/gcal-credentials.json"

getConfigDir(cdir) ==
    IF cdir = "unresolved" THEN [err |-> "$HOME is not defined"]
    ELSE [err |-> ""]

\* getDataDir makes the directory when it is not there.
getDataDir(ddir) ==
    IF ddir = "unavailable"
    THEN [err |-> "mkdir ~/.local/share/gcal: permission denied", dir |-> ddir]
    ELSE [err |-> "", dir |-> "present"]

Credentials(id, secret) == [present |-> TRUE, ClientID |-> id, ClientSecret |-> secret]

NilCredentials == [present |-> FALSE, ClientID |-> "", ClientSecret |-> ""]

Token(access, refresh, type, expiry) ==
    [present |-> TRUE, AccessToken |-> access, RefreshToken |-> refresh,
     TokenType |-> type, Expiry |-> expiry]

NilToken ==
    [present |-> FALSE, AccessToken |-> "", RefreshToken |-> "",
     TokenType |-> "", Expiry |-> ZeroTime]

\* A TokenStore, indexed by its JSON tags.
TokenStore(access, refresh, type, expiry) ==
    [access_token |-> access, refresh_token |-> refresh,
     token_type |-> type, expiry |-> expiry]

\* Only the client id is asked for.
credentialsCompleteIDOnly(rec) == rec.clientId # ""

\* The negation of creds.ClientID == "" || creds.ClientSecret == "".
credentialsComplete(rec) == rec.clientId # "" /\ rec.clientSecret # ""

\* LoadCredentials: [creds, err].
parseCredentials(dec) ==
    IF ~dec.ok
    THEN [creds |-> NilCredentials, err |-> "parse credentials: invalid JSON"]
    ELSE IF ~credentialsComplete(dec.rec)
         THEN [creds |-> NilCredentials,
               err |-> "credentials file missing clientId or clientSecret"]
    ELSE [creds |-> Credentials(dec.rec.clientId, dec.rec.clientSecret), err |-> ""]

readCredentials(dir, read) ==
    IF dir.err # ""
    THEN [creds |-> NilCredentials, err |-> "get config dir: " \o dir.err]
    ELSE IF read.err # "" THEN
        IF IsNotExist(read.err)
        THEN [creds |-> NilCredentials,
              err |-> "credentials not found at " \o credentialsPath
                      \o " - please configure OAuth credentials"]
        ELSE [creds |-> NilCredentials, err |-> "read credentials: " \o read.err]
    ELSE parseCredentials(Unmarshal(read.data, {"clientId", "clientSecret"}, {},
                                    [clientId |-> "", clientSecret |-> ""]))

LoadCredentials(cdir, cfile) ==
    readCredentials(getConfigDir(cdir), ReadFile(cdir, cfile))

\* LoadToken: [token, err, dataDir], dataDir the directory after the call.
parseToken(dir, dec) ==
    IF ~dec.ok
    THEN [token |-> NilToken, err |-> "parse token: invalid JSON", dataDir |-> dir.dir]
    ELSE [token |-> Token(dec.rec.access_token, dec.rec.refresh_token,
                          dec.rec.token_type, dec.rec.expiry),
          err |-> "", dataDir |-> dir.dir]

readToken(dir, read) ==
    IF dir.err # "" THEN [token |-> NilToken, err |-> dir.err, dataDir |-> dir.dir]
    ELSE IF read.err # "" THEN
        IF IsNotExist(read.err)
        THEN [token |-> NilToken, err |-> "", dataDir |-> dir.dir]
        ELSE [token |-> NilToken, err |-> "read token: " \o read.err,
              dataDir |-> dir.dir]
    ELSE parseToken(dir, Unmarshal(read.data,
                                   {"access_token", "refresh_token", "token_type"},
                                   {"expiry"}, TokenStore("", "", "", ZeroTime)))

loadTokenIn(dir, tfile) == readToken(dir, ReadFile(dir.dir, tfile))

LoadToken(ddir, tfile) == loadTokenIn(getDataDir(ddir), tfile)

\* SaveToken: [err, dataDir, tokFile], the directory and file after the call.
writeToken(dir, write, tfile) ==
    IF write.err # ""
    THEN [err |-> "write token: " \o write.err, dataDir |-> dir.dir, tokFile |-> tfile]
    ELSE [err |-> "", dataDir |-> dir.dir, tokFile |-> write.file]

marshalToken(dir, data, tfile) ==
    IF dir.err # "" THEN [err |-> dir.err, dataDir |-> dir.dir, tokFile |-> tfile]
    ELSE IF ~data.ok
         THEN [err |-> "marshal token: year outside of range [0,9999]",
               dataDir |-> dir.dir, tokFile |-> tfile]
    ELSE writeToken(dir, WriteFile(tfile, data.data), tfile)

SaveToken(token, ddir, tfile) ==
    marshalToken(getDataDir(ddir),
                 MarshalIndent(TokenStore(token.AccessToken, token.RefreshToken,
                                          token.TokenType, token.Expiry)),
                 tfile)

\* Token.Valid of the oauth2 library: an access token, and an expiry that is
\* zero or not within ten seconds of now.
Valid(token, now) ==
    /\ token.present /\ token.AccessToken # ""
    /\ (token.Expiry = ZeroTime \/ Unix(token.Expiry) - 10 >= now)

\* tokenSource.Token(): the stored token while it is valid, else a refresh
\* with its refresh token, whose answer the provider decides.  refresh is
\* that answer, a token or NilToken for a refusal; [token, err, requests].
TokenSourceToken(token, now, refresh) ==
    IF Valid(token, now) THEN [token |-> token, err |-> "", requests |-> 0]
    ELSE IF token.RefreshToken = ""
         THEN [token |-> NilToken, requests |-> 0,
               err |-> "oauth2: token expired and refresh token is not set"]
    ELSE IF ~refresh.present
         THEN [token |-> NilToken, requests |-> 1,
               err |-> "oauth2: cannot fetch token: 400 Bad Request"]
    ELSE [token |-> [refresh EXCEPT !.RefreshToken =
                        IF refresh.RefreshToken = "" THEN token.RefreshToken
                        ELSE refresh.RefreshToken],
          err |-> "", requests |-> 1]

NilClient == [present |-> FALSE, token |-> NilToken]

\* A refresh is taken to have happened whatever token came back.
tokenRefreshedAlways(newToken, token) == TRUE

\* newToken.AccessToken != token.AccessToken
tokenRefreshed(newToken, token) == newToken.AccessToken # token.AccessToken

\* return config.Client(ctx, newToken), nil with nothing saved.
returnClient(load, new, tfile) ==
    [client |-> [present |-> TRUE, token |-> new.token], err |-> "",
     dataDir |-> load.dataDir, tokFile |-> tfile,
     requests |-> new.requests, stderr |-> <<>>]

\* The save of a refreshed token whose failure is returned as an error.
saveRefreshedFatal(new, save) ==
    IF save.err # ""
    THEN [client |-> NilClient, err |-> "save token: " \o save.err,
          dataDir |-> save.dataDir, tokFile |-> save.tokFile,
          requests |-> new.requests, stderr |-> <<>>]
    ELSE [client |-> [present |-> TRUE, token |-> new.token], err |-> "",
          dataDir |-> save.dataDir, tokFile |-> save.tokFile,
          requests |-> new.requests, stderr |-> <<>>]

\* The save of a refreshed token: a failure is written to standard error.
saveRefreshed(new, save) ==
    [client |-> [present |-> TRUE, token |-> new.token], err |-> "",
     dataDir |-> save.dataDir, tokFile |-> save.tokFile,
     requests |-> new.requests,
     stderr |-> IF save.err # ""
                THEN <<"warning: failed to save refreshed token: " \o save.err>>
                ELSE <<>>]

\* The end of GetClient where a failed save is returned as an error.
finishGetClientSaveFatal(load, new, tfile) ==
    IF tokenRefreshed(new.token, load.token)
    THEN saveRefreshedFatal(new, SaveToken(new.token, load.dataDir, tfile))
    ELSE returnClient(load, new, tfile)

\* The end of GetClient: the token is saved if it was refreshed, a failure to
\* save is written to standard error, and the client is returned.
finishGetClient(load, new, tfile) ==
    IF tokenRefreshed(new.token, load.token)
    THEN saveRefreshed(new, SaveToken(new.token, load.dataDir, tfile))
    ELSE returnClient(load, new, tfile)

\* GetClient: [client, err, dataDir, tokFile, requests, stderr], with the
\* data directory and token file after the call, the number of requests to
\* the token endpoint, and the lines written to standard error.
getClientWithSource(load, new, tfile) ==
    IF new.err # ""
    THEN [client |-> NilClient, err |-> ErrTokenExpired \o ": " \o new.err,
          dataDir |-> load.dataDir, tokFile |-> tfile,
          requests |-> new.requests, stderr |-> <<>>]
    ELSE finishGetClient(load, new, tfile)

getClientWithToken(load, tfile, now, refresh) ==
    IF load.err # ""
    THEN [client |-> NilClient, err |-> "load token: " \o load.err,
          dataDir |-> load.dataDir, tokFile |-> tfile, requests |-> 0,
          stderr |-> <<>>]
    ELSE IF ~load.token.present
    THEN [client |-> NilClient,
          err |-> ErrNotConfigured \o ": no token found - run 'gcal auth' first",
          dataDir |-> load.dataDir, tokFile |-> tfile, requests |-> 0,
          stderr |-> <<>>]
    ELSE getClientWithSource(load, TokenSourceToken(load.token, now, refresh), tfile)

getClientWithCredentials(creds, ddir, tfile, now, refresh) ==
    IF creds.err # ""
    THEN [client |-> NilClient, err |-> ErrNotConfigured \o ": " \o creds.err,
          dataDir |-> ddir, tokFile |-> tfile, requests |-> 0, stderr |-> <<>>]
    ELSE getClientWithToken(LoadToken(ddir, tfile), tfile, now, refresh)

GetClient(cdir, cfile, ddir, tfile, now, refresh) ==
    getClientWithCredentials(LoadCredentials(cdir, cfile), ddir, tfile, now, refresh)

\* IsConfigured that looks at the credentials only.
credentialsLoaded(creds, ddir) ==
    [result |-> creds.err = "" /\ creds.creds.present, dataDir |-> ddir]

IsConfiguredCredentialsOnly(cdir, cfile, ddir, tfile) ==
    credentialsLoaded(LoadCredentials(cdir, cfile), ddir)

\* IsConfigured: [result, dataDir].
tokenLoaded(load) ==
    [result |-> load.err = "" /\ load.token.present, dataDir |-> load.dataDir]

isConfiguredWith(creds, ddir, tfile) ==
    IF creds.err # "" \/ ~creds.creds.present
    THEN [result |-> FALSE, dataDir |-> ddir]
    ELSE tokenLoaded(LoadToken(ddir, tfile))

IsConfigured(cdir, cfile, ddir, tfile) ==
    isConfiguredWith(LoadCredentials(cdir, cfile), ddir, tfile)

(***************************************************************************)
(* The functions of oauth.go called one after the other on a drawn file    *)
(* system.  input holds the last two calls, each with the file system      *)
(* before it and its result; output is the result of the last call.        *)
(***************************************************************************)

Nows == {"2024-01-15T09:00:00Z"}

\* time.Now() as seconds from 2000-01-01T00:00:00Z.
Clock(now) == ParseLayout(now).instant

\* A valid token, with a fraction of a second and a zone offset in its expiry.
TokenA == Token("ya29.a", "1//r", "Bearer", Time(2024, 1, 15, 12, 30, 0, 500000000, 7200))

\* A token whose text needs escaping, without refresh token.
TokenB == Token("ya29.b<\"x\\", "", "Bearer", Time(2024, 1, 15, 10, 0, 0, 0, 0))

\* A token that expired an hour before now.
TokenOld == Token("ya29.old", "1//r", "Bearer", Time(2024, 1, 15, 8, 0, 0, 0, 0))

\* The same access token with a later expiry.
TokenOldRenewed == Token("ya29.old", "", "Bearer", Time(2024, 1, 15, 10, 0, 0, 0, 0))

SavedTokens == {TokenA, TokenB}

\* The provider's answers to a refresh request: a refusal, a new access
\* token, the old access token again.
RefreshAnswers == {NilToken, TokenB, TokenOldRenewed}

StoreOf(token) ==
    TokenStore(token.AccessToken, token.RefreshToken, token.TokenType, token.Expiry)

\* json.Marshal of TokenA's store, as test_helpers.go writes token files.
CompactTokenA ==
    "{\"access_token\":\"ya29.a\",\"refresh_token\":\"1//r\","
        \o "\"token_type\":\"Bearer\",\"expiry\":\"2024-01-15T12:30:00.5+02:00\"}"

CompactExpiredNoRefresh ==
    "{\"access_token\":\"ya29.old\",\"refresh_token\":\"\","
        \o "\"token_type\":\"Bearer\",\"expiry\":\"2024-01-15T08:00:00Z\"}"

TokenFiles ==
    { NoFile,
      File("0600", CompactTokenA),
      File("0600", MarshalIndent(StoreOf(TokenOld)).data),
      File("0400", MarshalIndent(StoreOf(TokenOld)).data),
      File("0644", CompactExpiredNoRefresh),
      File("0000", CompactTokenA),
      File("0600", "{}"),
      File("0600", "not json"),
      File("0600", "{\"access_token\": 7}"),
      File("0600", "{\"access_token\":\"ya29.a\",\"expiry\":\"tomorrow\"}") }

CredentialFiles ==
    { NoFile,
      File("0644", "{\"clientId\":\"id-1\",\"clientSecret\":\"s3cr\\u003cet\"}"),
      File("0000", "{\"clientId\":\"id-1\",\"clientSecret\":\"s3cr\\u003cet\"}"),
      File("0644", "{invalid json}"),
      File("0644", "{\"clientId\":\"id-1\"}"),
      File("0644", "{\"clientId\":\"\",\"clientSecret\":\"s\"}"),
      File("0644", "null"),
      File("0644", "[]"),
      File("0644", "{\"clientId\":5,\"clientSecret\":\"s\"}"),
      File("0644", "{\"ClientID\": \"id-2\", \"clientsecret\": \"s2\", "
                       \o "\"extra\": [1, {\"a\": null}]}") }

FileSystem ==
    [configDir |-> configDir, credFile |-> credFile,
     dataDir |-> dataDir, tokFile |-> tokFile]

\* The last call and the one before it.
Called(fn, arg, result) ==
    LET call == [fn |-> fn, arg |-> arg, before |-> FileSystem, result |-> result]
    IN  IF Len(input) = 0 THEN <<call>> ELSE <<input[Len(input)], call>>

InitAuth ==
    /\ configDir \in {"unresolved", "absent", "present"}
    /\ credFile \in CredentialFiles
    /\ configDir # "present" => credFile = NoFile
    /\ dataDir \in {"unavailable", "absent", "present"}
    /\ tokFile \in TokenFiles
    /\ dataDir # "present" => tokFile = NoFile
    /\ httpRequests = 0 /\ stderr = <<>>
    /\ input = <<>> /\ output = [err |-> ""] /\ stage = "auth"
    /\ FetchOff
    /\ FlowOff

CallLoadCredentials ==
    /\ stage = "auth"
    /\ output' = LoadCredentials(configDir, credFile)
    /\ input' = Called("LoadCredentials", NilToken, output')
    /\ httpRequests' = 0 /\ stderr' = <<>>
    /\ UNCHANGED <<configDir, credFile, dataDir, tokFile, stage>>
    /\ UNCHANGED <<fetchVars, flowVars>>

CallLoadToken ==
    /\ stage = "auth"
    /\ output' = LoadToken(dataDir, tokFile)
    /\ input' = Called("LoadToken", NilToken, output')
    /\ dataDir' = output'.dataDir
    /\ httpRequests' = 0 /\ stderr' = <<>>
    /\ UNCHANGED <<configDir, credFile, tokFile, stage>>
    /\ UNCHANGED <<fetchVars, flowVars>>

CallSaveToken ==
    /\ stage = "auth"
    /\ \E token \in SavedTokens :
          /\ output' = SaveToken(token, dataDir, tokFile)
          /\ input' = Called("SaveToken", token, output')
    /\ dataDir' = output'.dataDir
    /\ tokFile' = output'.tokFile
    /\ httpRequests' = 0 /\ stderr' = <<>>
    /\ UNCHANGED <<configDir, credFile, stage>>
    /\ UNCHANGED <<fetchVars, flowVars>>

CallGetClient ==
    /\ stage = "auth"
    /\ \E now \in Nows, refresh \in RefreshAnswers :
          /\ output' = GetClient(configDir, credFile, dataDir, tokFile,
                                 Clock(now), refresh)
          /\ input' = Called("GetClient", refresh, output')
    /\ dataDir' = output'.dataDir
    /\ tokFile' = output'.tokFile
    /\ httpRequests' = output'.requests
    /\ stderr' = output'.stderr
    /\ UNCHANGED <<configDir, credFile, stage>>
    /\ UNCHANGED <<fetchVars, flowVars>>

CallIsConfigured ==
    /\ stage = "auth"
    /\ output' = IsConfigured(configDir, credFile, dataDir, tokFile)
    /\ input' = Called("IsConfigured", NilToken, output')
    /\ dataDir' = output'.dataDir
    /\ httpRequests' = 0 /\ stderr' = <<>>
    /\ UNCHANGED <<configDir, credFile, tokFile, stage>>
    /\ UNCHANGED <<fetchVars, flowVars>>

NextAuth ==
    \/ CallLoadCredentials
    \/ CallLoadToken
    \/ CallSaveToken
    \/ CallGetClient
    \/ CallIsConfigured

SpecAuth == InitAuth /\ [][NextAuth]_vars

(***************************************************************************)
(* sort.SliceStable and sort.Slice with less = (Start_i < Start_j).        *)
(***************************************************************************)

InsertAt(sorted, i, e) ==
    SubSeq(sorted, 1, i) \o <<e>> \o SubSeq(sorted, i + 1, Len(sorted))

\* Number of leading elements of sorted that e does not precede.
RECURSIVE StablePosition(_, _, _)
StablePosition(sorted, e, i) ==
    IF i < Len(sorted) /\ ~StrLess(e.Start, sorted[i + 1].Start)
    THEN StablePosition(sorted, e, i + 1)
    ELSE i

\* A sort that orders the events by id instead of by start.
RECURSIVE SliceByID(_)
SliceByID(events) ==
    IF Len(events) = 0 THEN <<>>
    ELSE LET sorted == SliceByID(SubSeq(events, 1, Len(events) - 1))
             e      == events[Len(events)]
             before == {i \in 0..Len(sorted) :
                           \A k \in 1..i : ~StrLess(e.ID, sorted[k].ID)}
         IN  InsertAt(sorted, CHOOSE i \in before : \A j \in before : j <= i, e)

\* sort.SliceStable: the one ordering by start that keeps equal starts in
\* their original order.
RECURSIVE SliceStable(_)
SliceStable(events) ==
    IF Len(events) = 0 THEN <<>>
    ELSE LET sorted == SliceStable(SubSeq(events, 1, Len(events) - 1))
             e      == events[Len(events)]
         IN  InsertAt(sorted, StablePosition(sorted, e, 0), e)

\* The places where e may stand in a list sorted by start.
InsertPositions(sorted, e) ==
    {i \in 0..Len(sorted) :
        /\ \A k \in 1..i : ~StrLess(e.Start, sorted[k].Start)
        /\ \A k \in (i + 1)..Len(sorted) : ~StrLess(sorted[k].Start, e.Start)}

\* sort.Slice: "The sort is not guaranteed to be stable".  Every ordering by
\* start is an outcome, whatever the order of equal starts.
RECURSIVE SliceOutcomes(_)
SliceOutcomes(events) ==
    IF Len(events) = 0 THEN {<<>>}
    ELSE LET e == events[Len(events)]
         IN  UNION { {InsertAt(sorted, i, e) : i \in InsertPositions(sorted, e)} :
                       sorted \in SliceOutcomes(SubSeq(events, 1, Len(events) - 1)) }

(***************************************************************************)
(* client.go and its second copy (unnamed/part_002): FetchTodayEvents,     *)
(* FetchUpcomingEvents and ListCalendars.  The two fetches differ in the   *)
(* time window they ask the provider for; the provider's answer is drawn   *)
(* here.                                                                   *)
(***************************************************************************)

MaxItems == 2

Operations ==
    {[name |-> n, file |-> f] :
        n \in {"FetchTodayEvents", "FetchUpcomingEvents"},
        f \in {"client.go", "part_002"}}

ListOperations ==
    {[name |-> "ListCalendars", file |-> f] : f \in {"client.go", "part_002"}}

CalendarIDLists == {<<>>, <<"work">>, <<"work", "home">>}

ProviderErrors == {"googleapi: Error 404: Not Found"}

ServiceErrors == {"credentials: could not find default credentials"}

Me == Attendee(TRUE, "me@example.com", "Me", "accepted")
Bob == Attendee(FALSE, "bob@example.com", "Bob", "accepted")

Meeting(id, status, start, end, attendees) ==
    RawEvent(id, id, status, start, end, attendees, "", NilConference, "", "")

\* Two meetings with the same start string, one whose start carries another
\* UTC offset (15:30+02:00 is 13:30Z), one the caller declined, and one
\* without start structure.
FetchItems ==
    { Meeting("x1", "confirmed", DateTimeOf("2024-01-15T14:00:00Z"),
              DateTimeOf("2024-01-15T15:00:00Z"), <<Me, Bob>>),
      Meeting("x2", "confirmed", DateTimeOf("2024-01-15T14:00:00Z"),
              DateTimeOf("2024-01-15T14:30:00Z"), <<Bob, Me>>),
      Meeting("x3", "confirmed", DateTimeOf("2024-01-15T15:30:00+02:00"),
              DateTimeOf("2024-01-15T16:30:00+02:00"), <<Me, Bob>>),
      Meeting("x4", "confirmed", DateTimeOf("2024-01-15T16:00:00Z"),
              DateTimeOf("2024-01-15T17:00:00Z"),
              <<Attendee(TRUE, "me@example.com", "Me", "declined"), Bob>>),
      Meeting("x5", "confirmed", NilDateTime, NilDateTime, <<Me, Bob>>) }

\* The calendars of the account, as CalendarList.List returns them.
CalendarInfo(id, summary, primary) == [ID |-> id, Summary |-> summary, Primary |-> primary]

CalendarLists ==
    { <<>>,
      <<CalendarInfo("me@example.com", "Me", TRUE),
        CalendarInfo("team@group.calendar.google.com", "Team", FALSE)>> }

\* The file systems a fetch starts from: configured with a valid token, with
\* an expired token in a writable and in a read-only file, without
\* credentials, and with a token file that is not JSON.
FetchEnvironments ==
    LET creds == File("0644", "{\"clientId\":\"id-1\",\"clientSecret\":\"s3cr\\u003cet\"}")
        Env(cd, cf, tf) == [configDir |-> cd, credFile |-> cf,
                            dataDir |-> "present", tokFile |-> tf]
    IN  { Env("present", creds, File("0600", CompactTokenA)),
          Env("present", creds, File("0600", MarshalIndent(StoreOf(TokenOld)).data)),
          Env("present", creds, File("0400", MarshalIndent(StoreOf(TokenOld)).data)),
          Env("absent", NoFile, File("0600", CompactTokenA)),
          Env("present", creds, File("0600", "not json")) }

\* The provider's answers to a refresh request during a fetch.
FetchRefreshAnswers == {NilToken, TokenB}

\* for _, item := range events.Items: the converted events, nil results left
\* out, in order.
RECURSIVE convertItems(_)
convertItems(items) ==
    IF Len(items) = 0 THEN <<>>
    ELSE LET r == convertEvent(items[1])
         IN  IF r.kind = "event" THEN <<r.event>> \o convertItems(Tail(items))
             ELSE convertItems(Tail(items))

Panics(items) == \E k \in 1..Len(items) : convertEvent(items[k]).kind = "panic"

\* The primary calendar is put in front of the ids given.
defaultCalendarIDsAddingPrimary(ids) == <<"primary">> \o ids

\* if len(calendarIDs) == 0 { calendarIDs = []string{"primary"} }
defaultCalendarIDs(ids) == IF Len(ids) = 0 THEN <<"primary">> ELSE ids

\* return NewErrorResponse(ErrNotConfigured, err.Error())
getClientErrorCode(err) == ErrNotConfigured

Init ==
    /\ input = "" /\ output = "" /\ stage = "off"
    /\ pc = "idle" /\ op = [name |-> "", file |-> ""]
    /\ idsArg = <<>> /\ calendarIDs = <<>> /\ idx = 0 /\ queried = <<>>
    /\ allEvents = <<>> /\ errors = <<>> /\ discovered = <<>> /\ failed = <<>>
    /\ response = NewErrorResponse("", "")
    /\ \E env \in FetchEnvironments :
          /\ configDir = env.configDir /\ credFile = env.credFile
          /\ dataDir = env.dataDir /\ tokFile = env.tokFile
    /\ httpRequests = 0 /\ stderr = <<>>
    /\ FlowOff

\* GetClient fails: the error response of the fetch.
getClientFailed(o, ids, got) ==
    /\ got.err # ""
    /\ op' = o
    /\ idsArg' = ids
    /\ response' = NewErrorResponse(getClientErrorCode(got.err), got.err)
    /\ dataDir' = got.dataDir /\ tokFile' = got.tokFile
    /\ httpRequests' = got.requests /\ stderr' = got.stderr

FetchBeginFails ==
    /\ pc = "idle"
    /\ \E o \in Operations, ids \in CalendarIDLists,
          now \in Nows, refresh \in FetchRefreshAnswers :
          getClientFailed(o, ids, GetClient(configDir, credFile, dataDir, tokFile, Clock(now), refresh))
    /\ pc' = "done"
    /\ UNCHANGED <<input, output, stage, calendarIDs, idx, queried, allEvents, errors,
                   discovered, failed, configDir, credFile>>
    /\ UNCHANGED flowVars

\* GetClient succeeds and calendar.NewService fails.
newServiceFailed(o, ids, got, err) ==
    /\ got.err = ""
    /\ op' = o
    /\ idsArg' = ids
    /\ response' = NewErrorResponse(ErrAPIError,
                       "failed to create calendar service: " \o err)
    /\ dataDir' = got.dataDir /\ tokFile' = got.tokFile
    /\ httpRequests' = got.requests /\ stderr' = got.stderr

FetchServiceFails ==
    /\ pc = "idle"
    /\ \E o \in Operations, ids \in CalendarIDLists,
          now \in Nows, refresh \in FetchRefreshAnswers, err \in ServiceErrors :
          newServiceFailed(o, ids, GetClient(configDir, credFile, dataDir, tokFile, Clock(now), refresh), err)
    /\ pc' = "done"
    /\ UNCHANGED <<input, output, stage, calendarIDs, idx, queried, allEvents, errors,
                   discovered, failed, configDir, credFile>>
    /\ UNCHANGED flowVars

\* GetClient succeeds: the calendar list is defaulted and the loop entered.
serviceCreated(o, ids, got) ==
    /\ got.err = ""
    /\ op' = o
    /\ idsArg' = ids
    /\ calendarIDs' = defaultCalendarIDs(ids)
    /\ dataDir' = got.dataDir /\ tokFile' = got.tokFile
    /\ httpRequests' = got.requests /\ stderr' = got.stderr

FetchBegin ==
    /\ pc = "idle"
    /\ \E o \in Operations, ids \in CalendarIDLists,
          now \in Nows, refresh \in FetchRefreshAnswers :
          serviceCreated(o, ids, GetClient(configDir, credFile, dataDir, tokFile, Clock(now), refresh))
    /\ idx' = 1
    /\ pc' = "querying"
    /\ UNCHANGED <<input, output, stage, queried, allEvents, errors, discovered, failed,
                   response, configDir, credFile>>
    /\ UNCHANGED flowVars

\* srv.Events.List(calID)...Do() returns an error.
QueryFails ==
    /\ pc = "querying" /\ idx <= Len(calendarIDs)
    /\ \E err \in ProviderErrors :
          errors' = IF op.file = "client.go"
                    THEN Append(errors, "calendar " \o calendarIDs[idx] \o ": " \o err)
                    ELSE errors
    /\ failed' = Append(failed, calendarIDs[idx])
    /\ queried' = Append(queried, calendarIDs[idx])
    /\ idx' = idx + 1
    /\ UNCHANGED <<input, output, stage, pc, op, idsArg, calendarIDs, allEvents,
                   discovered, response>>
    /\ UNCHANGED <<authVars, flowVars>>

\* The items of one answer of the provider have ids of their own.
DistinctIDs(items) ==
    \A i, j \in 1..Len(items) : items[i].Id = items[j].Id => i = j

\* The query returns items, and each is converted.
QuerySucceeds ==
    /\ pc = "querying" /\ idx <= Len(calendarIDs)
    /\ \E items \in SeqsUpTo(FetchItems, MaxItems) :
          /\ DistinctIDs(items)
          /\ ~Panics(items)
          /\ allEvents' = allEvents \o convertItems(items)
          /\ discovered' = discovered \o items
    /\ queried' = Append(queried, calendarIDs[idx])
    /\ idx' = idx + 1
    /\ UNCHANGED <<input, output, stage, pc, op, idsArg, calendarIDs, errors, failed,
                   response>>
    /\ UNCHANGED <<authVars, flowVars>>

\* The query returns an item on which convertEvent dereferences nil.
QueryPanics ==
    /\ pc = "querying" /\ idx <= Len(calendarIDs)
    /\ \E items \in SeqsUpTo(FetchItems, MaxItems) :
          /\ DistinctIDs(items)
          /\ Panics(items)
          /\ discovered' = discovered \o items
    /\ queried' = Append(queried, calendarIDs[idx])
    /\ pc' = "panicked"
    /\ UNCHANGED <<input, output, stage, op, idsArg, calendarIDs, idx, allEvents, errors,
                   failed, response>>
    /\ UNCHANGED <<authVars, flowVars>>

\* client.go: no events and some error.
FetchEndError ==
    /\ pc = "querying" /\ idx > Len(calendarIDs)
    /\ op.file = "client.go"
    /\ Len(errors) > 0 /\ Len(allEvents) = 0
    /\ response' = NewErrorResponse(ErrAPIError,
                       "failed to fetch events: " \o Join(errors, "; "))
    /\ pc' = "done"
    /\ UNCHANGED <<input, output, stage, op, idsArg, calendarIDs, idx, queried,
                   allEvents, errors, discovered, failed>>
    /\ UNCHANGED <<authVars, flowVars>>

\* client.go: stable sort, conflict pass, success response.
FetchEnd ==
    /\ pc = "querying" /\ idx > Len(calendarIDs)
    /\ op.file = "client.go"
    /\ ~(Len(errors) > 0 /\ Len(allEvents) = 0)
    /\ allEvents' = detectConflicts(SliceStable(allEvents))
    /\ \E now \in Nows : response' = NewSuccessResponse(allEvents', now)
    /\ pc' = "done"
    /\ UNCHANGED <<input, output, stage, op, idsArg, calendarIDs, idx, queried, errors,
                   discovered, failed>>
    /\ UNCHANGED <<authVars, flowVars>>

\* part_002: sort.Slice, conflict pass, success response, whatever failed.
FetchEndPart002 ==
    /\ pc = "querying" /\ idx > Len(calendarIDs)
    /\ op.file = "part_002"
    /\ \E sorted \in SliceOutcomes(allEvents) :
          allEvents' = detectConflicts(sorted)
    /\ \E now \in Nows : response' = NewSuccessResponse(allEvents', now)
    /\ pc' = "done"
    /\ UNCHANGED <<input, output, stage, op, idsArg, calendarIDs, idx, queried, errors,
                   discovered, failed>>
    /\ UNCHANGED <<authVars, flowVars>>

\* A ListCalendars that sends its request whatever GetClient returned.
listRequestsUngated(got, serviceErr) ==
    IF serviceErr = "" THEN <<"calendarList">> ELSE <<>>

\* srv.CalendarList.List().Do() is reached after GetClient and
\* calendar.NewService returned without an error.
listRequests(got, serviceErr) ==
    IF got.err = "" /\ serviceErr = "" THEN <<"calendarList">> ELSE <<>>

\* ListCalendars: GetClient, calendar.NewService, one CalendarList.List
\* request, and the CalendarsResponse.
listCalendarsWith(o, got, serviceErr, listErr, list) ==
    /\ op' = o
    /\ dataDir' = got.dataDir /\ tokFile' = got.tokFile
    /\ httpRequests' = got.requests /\ stderr' = got.stderr
    /\ got.err # "" => serviceErr = "" /\ listErr = "" /\ list = <<>>
    /\ serviceErr # "" => listErr = "" /\ list = <<>>
    /\ listErr # "" => list = <<>>
    /\ queried' = listRequests(got, serviceErr)
    /\ response' =
          IF got.err # ""
          THEN [Success |-> FALSE, Calendars |-> <<>>,
                Error |-> getClientErrorCode(got.err), Message |-> got.err]
          ELSE IF serviceErr # ""
          THEN [Success |-> FALSE, Calendars |-> <<>>, Error |-> ErrAPIError,
                Message |-> "failed to create calendar service: " \o serviceErr]
          ELSE IF listErr # ""
          THEN [Success |-> FALSE, Calendars |-> <<>>, Error |-> ErrAPIError,
                Message |-> "failed to list calendars: " \o listErr]
          ELSE [Success |-> TRUE, Calendars |-> list,
                Error |-> "", Message |-> ""]

ListCalendars ==
    /\ pc = "idle"
    /\ \E o \in ListOperations, now \in Nows, refresh \in FetchRefreshAnswers,
          serviceErr \in ServiceErrors \cup {""}, listErr \in ProviderErrors \cup {""},
          list \in CalendarLists :
          listCalendarsWith(o, GetClient(configDir, credFile, dataDir, tokFile, Clock(now), refresh),
                            serviceErr, listErr, list)
    /\ pc' = "listed"
    /\ UNCHANGED <<input, output, stage, idsArg, calendarIDs, idx, allEvents, errors,
                   discovered, failed, configDir, credFile>>
    /\ UNCHANGED flowVars

Next ==
    \/ FetchBeginFails
    \/ FetchServiceFails
    \/ FetchBegin
    \/ QueryFails
    \/ QuerySucceeds
    \/ QueryPanics
    \/ FetchEndError
    \/ FetchEnd
    \/ FetchEndPart002
    \/ ListCalendars

Spec == Init /\ [][Next]_vars

\* A fetch has returned a success response.
Succeeded == pc = "done" /\ response.Success

\* The merged list in discovery order: calendar order, then provider order.
Merged == convertItems(discovered)

\* C6: every event of every successful fetch response has attendeeCount equal
\* to the length of its attendee list, attendeeCount >= 1, responseStatus
\* "accepted" and a non-empty start, the time-of-day start of a raw item.
C6_ResponseEventsWellFormed ==
    Succeeded =>
        \A k \in 1..Len(response.Events) :
            LET e == response.Events[k]
            IN  /\ e.AttendeeCount = Len(e.Attendees)
                /\ e.AttendeeCount >= 1
                /\ e.ResponseStatus = "accepted"
                /\ e.Start # ""
                /\ \E n \in 1..Len(discovered) :
                      /\ discovered[n].Start.present
                      /\ discovered[n].Start.DateTime = e.Start
                      /\ discovered[n].Id = e.ID

C6_Witness ==
    /\ Succeeded
    /\ Len(response.Events) = 2
    /\ Len(discovered) = 4
    /\ \E n \in 1..Len(discovered) :
          SelfResponseStatus(discovered[n]) = "declined"

\* The events of a list that start at the string s, flags put aside.
StartingAt(events, s) ==
    LET AtS(e) == e.Start = s
        sel    == SelectSeq(events, AtS)
    IN  [k \in 1..Len(sel) |-> Unflagged(sel[k])]

\* The response keeps events with identical start strings in discovery order.
KeepsDiscoveryOrder ==
    \A k \in 1..Len(response.Events) :
        StartingAt(response.Events, response.Events[k].Start)
            = StartingAt(Merged, response.Events[k].Start)

\* C8: in the response of FetchTodayEvents and FetchUpcomingEvents two events
\* with identical start strings keep their relative discovery order.
C8_StableSort == Succeeded => KeepsDiscoveryOrder

\* C8 for the copies of client.go alone, which sort with sort.SliceStable.
C8_StableSortClientGo ==
    (Succeeded /\ op.file = "client.go") => KeepsDiscoveryOrder

\* C9: the events of a successful response are ordered by start instant: no
\* event starts later than the event that follows it, also when the
\* timestamps carry different UTC offsets.
C9_OrderedByInstant ==
    Succeeded =>
        \A k \in 1..(Len(response.Events) - 1) :
            LET a == ParseRFC3339(response.Events[k].Start)
                b == ParseRFC3339(response.Events[k + 1].Start)
            IN  (a.ok /\ b.ok) => a.instant <= b.instant

\* What the sort does establish: the start strings ascend bytewise.
C9_OrderedByString ==
    Succeeded =>
        \A k \in 1..(Len(response.Events) - 1) :
            ~StrLess(response.Events[k + 1].Start, response.Events[k].Start)

\* Every calendar of the list was queried and every query failed.
AllCalendarsFailed ==
    /\ pc = "done" /\ idx > Len(calendarIDs)
    /\ Len(calendarIDs) > 0 /\ Len(failed) = Len(calendarIDs)

\* C10: if the query of every calendar fails, the fetch returns an error
\* response with code api_error, a message that holds the failure message of
\* every calendar, and no events.
C10_AllFailedIsAPIError ==
    AllCalendarsFailed =>
        /\ ~response.Success
        /\ response.Error = ErrAPIError
        /\ response.Events = <<>>
        /\ \A k \in 1..Len(calendarIDs) : \E err \in ProviderErrors :
              IsSubstring("calendar " \o calendarIDs[k] \o ": " \o err, response.Message)

\* C10 for the copies of client.go alone, which collect the errors.
C10_AllFailedClientGo ==
    (AllCalendarsFailed /\ op.file = "client.go") =>
        /\ ~response.Success
        /\ response.Error = ErrAPIError
        /\ response.Events = <<>>
        /\ \A k \in 1..Len(calendarIDs) : \E err \in ProviderErrors :
              IsSubstring("calendar " \o calendarIDs[k] \o ": " \o err, response.Message)

\* The loop of a fetch ran to its end and some calendar query succeeded.
SomeCalendarSucceeded ==
    /\ pc = "done" /\ idx > Len(calendarIDs)
    /\ Len(failed) < Len(calendarIDs)

\* The response is a success that holds the converted events of the
\* successful calendars, each once, and tells of no failure.
SilentPartialResult ==
    /\ response.Success
    /\ response.Error = "" /\ response.Message = ""
    /\ Len(response.Events) = Len(Merged)
    /\ \A e \in {Unflagged(Merged[k]) : k \in 1..Len(Merged)} :
          Cardinality({k \in 1..Len(Merged) : Unflagged(Merged[k]) = e})
              = Cardinality({k \in 1..Len(response.Events) :
                                Unflagged(response.Events[k]) = e})

\* C11: if at least one calendar query succeeds, the fetch returns a success
\* response with the converted events of the successful calendars, however
\* many other calendars failed and however many events are left after
\* filtering, and the failures are not surfaced.
C11_PartialSuccess == SomeCalendarSucceeded => SilentPartialResult

\* C11 as far as client.go keeps it: when some event is left after filtering,
\* or no calendar failed.
C11_PartialSuccessWithEvents ==
    (SomeCalendarSucceeded /\ (Len(Merged) > 0 \/ Len(failed) = 0))
        => SilentPartialResult

\* C11 for the second copy, which never reports a failed calendar.
C11_PartialSuccessPart002 ==
    (SomeCalendarSucceeded /\ op.file = "part_002") => SilentPartialResult

\* The calendars a fetch is to query for the ids it was passed.
CalendarsToQuery == IF Len(idsArg) = 0 THEN <<"primary">> ELSE idsArg

\* C12: a fetch that is passed an empty id list queries exactly one calendar,
\* the primary one; a fetch that is passed ids queries exactly these, in
\* order, and not the primary calendar in addition.
C12_DefaultPrimary ==
    (pc \in {"querying", "done", "panicked"} /\ idx >= 1) =>
        /\ Len(queried) <= Len(CalendarsToQuery)
        /\ queried = SubSeq(CalendarsToQuery, 1, Len(queried))
        /\ (pc = "done" => queried = CalendarsToQuery)

C12_Witness ==
    /\ pc = "done" /\ idx >= 1
    /\ idsArg = <<>>
    /\ queried = <<"primary">>
    /\ response.Success

\* The operation ended because the token source of GetClient failed.
RefreshFailed ==
    /\ pc \in {"done", "listed"}
    /\ ~response.Success
    /\ HasPrefixAt(response.Message, 1, ErrTokenExpired \o ": ")

\* C13: when the token exchange/refresh fails while the session is obtained,
\* the response of FetchTodayEvents, FetchUpcomingEvents and ListCalendars
\* carries the error code token_expired.
C13_RefreshFailureIsTokenExpired == RefreshFailed => response.Error = ErrTokenExpired

\* What the operations return instead: the code not_configured, with the
\* text token_expired at the head of the message.
C13_RefreshFailureIsNotConfigured == RefreshFailed => response.Error = ErrNotConfigured

(***************************************************************************)
(* Properties of the credential store, the token store and the session.    *)
(***************************************************************************)

\* The last call of the harness was a call of fn.
LastIs(fn) == stage = "auth" /\ Len(input) > 0 /\ input[Len(input)].fn = fn

\* The file system before the last call, and what the two files held then.
Before == input[Len(input)].before

StoredCredentials == LoadCredentials(Before.configDir, Before.credFile)

StoredToken == LoadToken(Before.dataDir, Before.tokFile)

\* The text of an error starts with the code.
Classified(err, code) == HasPrefixAt(err, 1, code \o ": ")

\* C14: whatever the state of the credential file and of the token file
\* (absent, unreadable, unparseable, valid), every failure of GetClient is
\* classified as NotConfigured or as TokenExpired.
C14_FailuresClassified ==
    (LastIs("GetClient") /\ output.err # "") =>
        \/ Classified(output.err, ErrNotConfigured)
        \/ Classified(output.err, ErrTokenExpired)

\* What GetClient does keep: a failure carries one of the two codes unless
\* it is a failure to load the token, which carries none.
C14_FailuresClassifiedButLoad ==
    (LastIs("GetClient") /\ output.err # "") =>
        \/ Classified(output.err, ErrNotConfigured)
        \/ Classified(output.err, ErrTokenExpired)
        \/ /\ HasPrefixAt(output.err, 1, "load token: ")
           /\ StoredCredentials.err = ""
           /\ StoredToken.err # ""

\* C15: after a successful GetClient, if the token source returned an access
\* token other than the stored one and the save succeeded, the persisted
\* record is the new token; if it returned the stored access token, the
\* token file is as it was.
C15_PersistsRefreshedToken ==
    (LastIs("GetClient") /\ output.err = "") =>
        LET new == output.client.token
        IN  /\ (new.AccessToken # StoredToken.token.AccessToken /\ stderr = <<>>)
                   => /\ LoadToken(dataDir, tokFile).err = ""
                      /\ LoadToken(dataDir, tokFile).token = new
            /\ new.AccessToken = StoredToken.token.AccessToken
                   => tokFile = Before.tokFile

C15_Witness ==
    /\ LastIs("GetClient") /\ output.err = ""
    /\ httpRequests = 1
    /\ output.client.token.AccessToken = TokenB.AccessToken
    /\ Before.tokFile.data = MarshalIndent(StoreOf(TokenOld)).data
    /\ tokFile.data = MarshalIndent(StoreOf(output.client.token)).data
    /\ output.client.token.RefreshToken = TokenOld.RefreshToken

\* The last call was a GetClient that got a new access token from the token
\* source and could not save it.
RefreshedButNotSaved ==
    /\ LastIs("GetClient")
    /\ StoredCredentials.err = ""
    /\ StoredToken.err = "" /\ StoredToken.token.present
    /\ LET new == TokenSourceToken(StoredToken.token, Clock("2024-01-15T09:00:00Z"),
                                   input[Len(input)].arg)
       IN  /\ new.err = ""
           /\ new.token.AccessToken # StoredToken.token.AccessToken
           /\ SaveToken(new.token, StoredToken.dataDir, Before.tokFile).err # ""

\* C16: if persisting a refreshed token fails inside GetClient, GetClient
\* still returns an authenticated client and no error, and the failure is
\* only written to standard error.
C16_SaveFailureNotFatal ==
    RefreshedButNotSaved =>
        /\ output.err = ""
        /\ output.client.present
        /\ output.client.token.AccessToken = input[Len(input)].arg.AccessToken
        /\ Len(stderr) = 1
        /\ HasPrefixAt(stderr[1], 1, "warning: failed to save refreshed token: ")
        /\ tokFile = Before.tokFile

C16_Witness ==
    /\ RefreshedButNotSaved
    /\ Before.tokFile.mode = "0400"
    /\ output.err = ""
    /\ stderr = <<"warning: failed to save refreshed token: write token: permission denied">>

\* C16 seen from a fetch: with a token file that cannot be written and a
\* refresh the provider answered, the operation goes on to the calendar
\* service, and the failed save is a warning on standard error.
C16_FetchProceeds ==
    (/\ pc # "idle" /\ stage = "off"
     /\ httpRequests = 1 /\ ~Writable(tokFile.mode)
     /\ ~RefreshFailed) =>
        /\ Len(stderr) = 1
        /\ pc \in {"querying", "done", "panicked", "listed"}
        /\ (pc \in {"done", "listed"} /\ ~response.Success)
               => response.Error = ErrAPIError

C16_FetchProceedsReached ==
    /\ Succeeded /\ Len(stderr) > 0 /\ Len(response.Events) > 0
    /\ tokFile.mode = "0400"

\* C17: IsConfigured returns true if and only if the credential load succeeds
\* and the token load succeeds with a token present; it returns false when
\* either file is missing, unreadable or not JSON; it sends no request and
\* leaves both files as they were.
C17_IsConfigured ==
    LastIs("IsConfigured") =>
        /\ output.result = (/\ StoredCredentials.err = ""
                            /\ StoredToken.err = "" /\ StoredToken.token.present)
        /\ (\/ Before.configDir # "present" \/ Before.credFile.kind = "absent"
            \/ ~Readable(Before.credFile.mode)
            \/ ~ScanDocument(Before.credFile.data).ok
            \/ Before.dataDir = "unavailable" \/ Before.tokFile.kind = "absent"
            \/ ~Readable(Before.tokFile.mode)
            \/ ~ScanDocument(Before.tokFile.data).ok) => ~output.result
        /\ httpRequests = 0
        /\ credFile = Before.credFile /\ tokFile = Before.tokFile

\* True on a token that expired, for which GetClient would ask for a refresh.
C17_Witness ==
    /\ LastIs("IsConfigured") /\ output.result
    /\ ~Valid(StoredToken.token, Clock("2024-01-15T09:00:00Z"))
    /\ StoredToken.token.RefreshToken # ""
    /\ httpRequests = 0

\* The credential file is there, can be read and parses as the two-field
\* structure.
CredentialFileParses ==
    /\ Before.configDir = "present"
    /\ Before.credFile.kind = "file"
    /\ Readable(Before.credFile.mode)
    /\ Unmarshal(Before.credFile.data, {"clientId", "clientSecret"}, {},
                 [clientId |-> "", clientSecret |-> ""]).ok

StoredPair ==
    Unmarshal(Before.credFile.data, {"clientId", "clientSecret"}, {},
              [clientId |-> "", clientSecret |-> ""]).rec

\* C18: LoadCredentials fails when the credential file is absent, unreadable,
\* not parseable as the two-field structure, or holds an empty clientId or
\* clientSecret; otherwise it returns the stored pair.  It creates and
\* changes no file or directory.
C18_LoadCredentials ==
    LastIs("LoadCredentials") =>
        /\ output.err = "" <=> (/\ CredentialFileParses
                                /\ StoredPair.clientId # ""
                                /\ StoredPair.clientSecret # "")
        /\ output.err = "" =>
              output.creds = Credentials(StoredPair.clientId, StoredPair.clientSecret)
        /\ output.err # "" => ~output.creds.present
        /\ FileSystem = Before

C18_Witness ==
    /\ LastIs("LoadCredentials")
    /\ output.err = ""
    /\ output.creds = Credentials("id-1", "s3cr<et")
    /\ FileSystem = Before

\* A missing secret is refused, and the missing data directory is not made.
C18_WitnessRefused ==
    /\ LastIs("LoadCredentials")
    /\ Before.credFile.data = "{\"clientId\":\"id-1\"}"
    /\ output.err = "credentials file missing clientId or clientSecret"
    /\ dataDir = "absent"

\* The token file is there, can be read and parses as a TokenStore.
TokenFileParses ==
    /\ Before.dataDir # "unavailable"
    /\ Before.tokFile.kind = "file"
    /\ Readable(Before.tokFile.mode)
    /\ Unmarshal(Before.tokFile.data, {"access_token", "refresh_token", "token_type"},
                 {"expiry"}, TokenStore("", "", "", ZeroTime)).ok

StoredRecord ==
    Unmarshal(Before.tokFile.data, {"access_token", "refresh_token", "token_type"},
              {"expiry"}, TokenStore("", "", "", ZeroTime)).rec

\* LoadToken returns no token and no error exactly when there is no token
\* file, an error and no token for every other failure to read or parse,
\* and else the token with the values of the file.
LoadTokenFaithful ==
    /\ (output.err = "" /\ ~output.token.present)
           <=> (Before.dataDir # "unavailable" /\ Before.tokFile.kind = "absent")
    /\ output.err # "" <=> (\/ (Before.tokFile.kind = "file" /\ ~TokenFileParses)
                            \/ Before.dataDir = "unavailable")
    /\ output.err # "" => ~output.token.present
    /\ output.token.present =>
          /\ output.token.AccessToken = StoredRecord.access_token
          /\ output.token.RefreshToken = StoredRecord.refresh_token
          /\ output.token.TokenType = StoredRecord.token_type
          /\ output.token.Expiry = StoredRecord.expiry

\* C19: LoadToken returns an absent result with no error exactly when no
\* token file exists, an error and no token for every other read or parse
\* failure, and a token only with the values stored in the file: never a
\* token whose access token is empty.
C19_LoadToken ==
    LastIs("LoadToken") =>
        /\ LoadTokenFaithful
        /\ output.token.present => output.token.AccessToken # ""

\* C19 without its last clause.
C19_LoadTokenFaithful == LastIs("LoadToken") => LoadTokenFaithful

\* C20: a token saved with SaveToken and loaded at once with LoadToken comes
\* back with the same access token, refresh token, token type and expiry;
\* a second SaveToken replaces the record of the first.
C20_RoundTrip ==
    (/\ stage = "auth" /\ Len(input) = 2
     /\ input[1].fn = "SaveToken" /\ input[1].result.err = ""
     /\ input[2].fn = "LoadToken") =>
        /\ output.err = ""
        /\ output.token = input[1].arg
        /\ Unix(output.token.Expiry) = Unix(input[1].arg.Expiry)

\* TokenB saved over the record of TokenA, and loaded.
C20_Witness ==
    /\ stage = "auth" /\ Len(input) = 2
    /\ input[1].fn = "SaveToken" /\ input[1].arg = TokenB
    /\ input[1].before.tokFile.data = MarshalIndent(StoreOf(TokenA)).data
    /\ input[2].fn = "LoadToken"
    /\ output.token = TokenB

(***************************************************************************)
(* C21.  The permissions of the token file after SaveToken.                *)
(***************************************************************************)

\* C21: after every successful SaveToken the token file is readable and
\* writable by its owner only (mode 0600), whether the file was made by the
\* call or was there before with another mode.
C21_OwnerOnly ==
    (LastIs("SaveToken") /\ output.err = "") => tokFile.mode = "0600"

\* What os.WriteFile does: the mode asked for is given to a file the call
\* makes, and a file that was there keeps the mode it had.
C21_OwnerOnlyWhenCreated ==
    (LastIs("SaveToken") /\ output.err = "") =>
        /\ tokFile.kind = "file"
        /\ tokFile.data = MarshalIndent(StoreOf(input[Len(input)].arg)).data
        /\ tokFile.mode = IF Before.tokFile.kind = "absent" THEN "0600"
                          ELSE Before.tokFile.mode

\* A token file made by the call.
C21_CreatedReached ==
    /\ LastIs("SaveToken") /\ output.err = ""
    /\ Before.tokFile.kind = "absent" /\ tokFile.mode = "0600"

(***************************************************************************)
(* SaveToken system call by system call, with LoadToken running beside it. *)
(* os.WriteFile(path, data, 0600) is OpenFile(path, O_WRONLY|O_CREATE|     *)
(* O_TRUNC, 0600), Write and Close; Write is a run of write(2) calls, each *)
(* of which may store a part of what is left or fail.  input is the token  *)
(* file before the save and the token saved, output the last LoadToken.    *)
(***************************************************************************)

\* The greatest number of write(2) calls one Write takes.
MaxWrites == 2

\* The bytes one write(2) call stores.
ChunkLen(data) == (Len(data) + MaxWrites - 1) \div MaxWrites

\* The token files a save finds: none, and complete records.
WriteFiles ==
    { NoFile,
      File("0600", CompactTokenA),
      File("0600", MarshalIndent(StoreOf(TokenOld)).data) }

InitWrite ==
    /\ stage = "write"
    /\ configDir = "present" /\ credFile = NoFile
    /\ dataDir = "present" /\ tokFile \in WriteFiles
    /\ httpRequests = 0 /\ stderr = <<>>
    /\ \E token \in SavedTokens : input = [before |-> tokFile, token |-> token]
    /\ output = [observed |-> FALSE, load |-> LoadToken(dataDir, tokFile)]
    /\ FetchOff
    /\ oauthCopy = "" /\ flowPC = "off" /\ selected = Selected("none", "")
    /\ listener = "unbound" /\ serve = "none" /\ routes = {} /\ conns = <<>>
    /\ codeChan = <<>> /\ errChan = <<>> /\ history = NoHistory /\ flowErr = ""
    /\ saving = [NoSave EXCEPT !.pc = "idle"]

\* SaveToken up to the open of os.WriteFile: the file is made or truncated.
SaveOpen ==
    /\ stage = "write" /\ saving.pc = "idle"
    /\ saving' = [saving EXCEPT !.pc = "writing",
                     !.data = MarshalIndent(StoreOf(input.token)).data]
    /\ tokFile' = WriteFile(tokFile, "").file
    /\ UNCHANGED <<input, output, stage, configDir, credFile, dataDir, httpRequests,
                   stderr, fetchVars, oauthCopy, flowPC, selected, listener, serve,
                   routes, conns, codeChan, errChan, history, flowErr>>

\* One write(2) call stores the next bytes.
SaveWrite ==
    /\ stage = "write" /\ saving.pc = "writing"
    /\ saving.written < Len(saving.data)
    /\ \E n \in {saving.written + ChunkLen(saving.data), Len(saving.data)} :
          /\ n <= Len(saving.data)
          /\ saving' = [saving EXCEPT !.written = n]
          /\ tokFile' = [tokFile EXCEPT !.data = SubSeq(saving.data, 1, n)]
    /\ UNCHANGED <<input, output, stage, configDir, credFile, dataDir, httpRequests,
                   stderr, fetchVars, oauthCopy, flowPC, selected, listener, serve,
                   routes, conns, codeChan, errChan, history, flowErr>>

\* A write(2) call fails (no space left, quota, I/O error): os.WriteFile
\* closes the file and SaveToken returns "write token: ...".
SaveWriteFails ==
    /\ stage = "write" /\ saving.pc = "writing"
    /\ saving.written < Len(saving.data)
    /\ saving' = [saving EXCEPT !.pc = "failed"]
    /\ UNCHANGED <<input, output, stage, authVars, fetchVars, oauthCopy, flowPC,
                   selected, listener, serve, routes, conns, codeChan, errChan,
                   history, flowErr>>

\* Everything is written: Close, and SaveToken returns nil.
SaveClose ==
    /\ stage = "write" /\ saving.pc = "writing"
    /\ saving.written = Len(saving.data)
    /\ saving' = [saving EXCEPT !.pc = "saved"]
    /\ UNCHANGED <<input, output, stage, authVars, fetchVars, oauthCopy, flowPC,
                   selected, listener, serve, routes, conns, codeChan, errChan,
                   history, flowErr>>

\* LoadToken in another goroutine or process, at any point.
ObserveLoadToken ==
    /\ stage = "write"
    /\ output' = [observed |-> TRUE, load |-> LoadToken(dataDir, tokFile)]
    /\ saving' = [saving EXCEPT !.seen = <<saving.pc>>]
    /\ UNCHANGED <<input, stage, authVars, fetchVars, oauthCopy, flowPC, selected,
                   listener, serve, routes, conns, codeChan, errChan, history, flowErr>>

NextWrite ==
    \/ SaveOpen
    \/ SaveWrite
    \/ SaveWriteFails
    \/ SaveClose
    \/ ObserveLoadToken

SpecWrite == InitWrite /\ [][NextWrite]_vars

(***************************************************************************)
(* C22.  What a LoadToken beside a SaveToken observes.                     *)
(***************************************************************************)

\* The record the token file held before the save.
OldRecord == LoadToken("present", input.before)

\* LoadToken answered with a complete record: the old one or the new one.
CompleteRecord(load) ==
    /\ load.err = ""
    /\ \/ load.token = OldRecord.token
       \/ load.token = input.token

\* C22: a LoadToken that runs at any point relative to a SaveToken, a
\* SaveToken that fails part-way included, observes the complete old record
\* or the complete new record, never an empty or partly written one.
C22_AtomicOverwrite ==
    (stage = "write" /\ output.observed) => CompleteRecord(output.load)

\* What the code gives: the old record before the save, the new one after a
\* save that returned nil.
C22_CompleteOutsideTheWrite ==
    (stage = "write" /\ output.observed /\ saving.seen \in {<<"idle">>, <<"saved">>})
        => CompleteRecord(output.load)

\* A LoadToken after a save that failed part-way finds what was written.
C22_TornAfterFailure ==
    (stage = "write" /\ saving.pc = "failed") =>
        /\ tokFile.data = SubSeq(saving.data, 1, saving.written)
        /\ saving.written < Len(saving.data)

\* A LoadToken after the save returned, with the new record.
C22_SavedObserved ==
    /\ stage = "write" /\ output.observed /\ saving.seen = <<"saved">>
    /\ output.load.token = input.token

(***************************************************************************)
(* RunAuthFlow (unnamed/part_001, two copies: line 150 and line 438), as   *)
(* its goroutines: the caller, server.Serve, and one handler for each      *)
(* callback request.  codeChan and errChan have one slot; a send to a      *)
(* channel on which the select is parked is handed to the select, which    *)
(* then takes that case; a select that finds several cases ready takes any *)
(* of them.                                                                *)
(***************************************************************************)

\* The greatest number of callback requests during one invocation.
MaxRequests == 3

\* The greatest number of invocations in one process.
MaxInvocations == 2

\* The two copies of oauth.go, by the line of RunAuthFlow.
Copies == {"part_001:150", "part_001:438"}

\* The code parameter of a callback request, "" when there is none.
CallbackCodes == {"", "4/0Ab", "4/0Cd"}

NoCodeInCallback == "no code in callback"

AuthorizationTimeout == "authorization timeout - no response received"

AcceptError == "accept tcp [::]:8085: accept4: too many open files"

BindError == "listen tcp :8085: bind: address already in use"

\* The answers of the token endpoint to config.Exchange: a refusal, a token.
ExchangeAnswers == {NilToken, TokenB}

\* The token files an invocation finds.
FlowTokenFiles ==
    { NoFile,
      File("0600", CompactTokenA),
      File("0400", MarshalIndent(StoreOf(TokenOld)).data) }

Conn(code) == [code |-> code, pc |-> "handling", conn |-> "active"]

\* The handlers that have not sent yet, and the connections in use.
Handling == {i \in 1..Len(conns) : conns[i].pc = "handling"}

ActiveConns == {i \in 1..Len(conns) : conns[i].conn = "active"}

OpenConns == {i \in 1..Len(conns) : conns[i].conn # "closed"}

InitFlow ==
    /\ stage = "flow" /\ input = "" /\ output = NilToken
    /\ configDir = "present" /\ credFile = NoFile
    /\ dataDir = "present" /\ tokFile \in FlowTokenFiles
    /\ httpRequests = 0 /\ stderr = <<>>
    /\ FetchOff
    /\ oauthCopy \in Copies /\ flowPC = "idle" /\ selected = Selected("none", "")
    /\ listener = "unbound" /\ serve = "none" /\ routes = {} /\ conns = <<>>
    /\ codeChan = <<>> /\ errChan = <<>> /\ history = NoHistory /\ flowErr = ""
    /\ saving = NoSave

\* The history of a new invocation.
Invoked == [NoHistory EXCEPT !.invocation = history.invocation + 1,
                             !.before = tokFile]

\* A flow that goes on to the browser although the bind failed.
afterBindErrorOpensBrowser(h) == [h EXCEPT !.binds = @ + 1, !.browser = @ + 1]

\* return fmt.Errorf("start callback server: %w", err): one call of
\* net.Listen, and nothing else.
afterBindError(h) == [h EXCEPT !.binds = @ + 1]

\* net.Listen fails.
FlowBindFails ==
    /\ stage = "flow" /\ flowPC \in {"idle", "returned"}
    /\ history.invocation < MaxInvocations
    /\ history' = afterBindError(Invoked)
    /\ flowErr' = "start callback server: " \o BindError
    /\ flowPC' = "returned"
    /\ selected' = Selected("none", "")
    /\ listener' = "unbound" /\ serve' = "none" /\ conns' = <<>>
    /\ codeChan' = <<>> /\ errChan' = <<>>
    /\ output' = NilToken /\ httpRequests' = 0 /\ stderr' = <<>>
    /\ UNCHANGED <<input, stage, configDir, credFile, dataDir, tokFile, fetchVars,
                   oauthCopy, routes, saving>>

\* The first copy registers the handler with http.HandleFunc, on
\* http.DefaultServeMux; the second on a mux of its own.
registersGlobally(copy) == copy = "part_001:150"

\* The listener is bound and the pattern is on DefaultServeMux already:
\* http.HandleFunc panics ("http: multiple registrations for /callback").
FlowStartPanics ==
    /\ stage = "flow" /\ flowPC \in {"idle", "returned"}
    /\ history.invocation < MaxInvocations
    /\ registersGlobally(oauthCopy) /\ "/callback" \in routes
    /\ history' = [Invoked EXCEPT !.binds = 1]
    /\ listener' = "open"
    /\ flowPC' = "panicked"
    /\ flowErr' = "panic: http: multiple registrations for /callback"
    /\ selected' = Selected("none", "")
    /\ serve' = "none" /\ conns' = <<>> /\ codeChan' = <<>> /\ errChan' = <<>>
    /\ output' = NilToken /\ httpRequests' = 0 /\ stderr' = <<>>
    /\ UNCHANGED <<input, stage, configDir, credFile, dataDir, tokFile, fetchVars,
                   oauthCopy, routes, saving>>

\* The listener is bound, the handler registered, server.Serve started in
\* its goroutine, the URL printed and the browser opened: the caller is at
\* the select.
FlowStart ==
    /\ stage = "flow" /\ flowPC \in {"idle", "returned"}
    /\ history.invocation < MaxInvocations
    /\ ~(registersGlobally(oauthCopy) /\ "/callback" \in routes)
    /\ history' = [Invoked EXCEPT !.binds = 1, !.browser = 1]
    /\ listener' = "open" /\ serve' = "serving"
    /\ routes' = IF registersGlobally(oauthCopy) THEN routes \cup {"/callback"}
                 ELSE routes
    /\ flowPC' = "select"
    /\ flowErr' = ""
    /\ selected' = Selected("none", "")
    /\ conns' = <<>> /\ codeChan' = <<>> /\ errChan' = <<>>
    /\ output' = NilToken /\ httpRequests' = 0 /\ stderr' = <<>>
    /\ UNCHANGED <<input, stage, configDir, credFile, dataDir, tokFile, fetchVars,
                   oauthCopy, saving>>

\* The server accepts a connection and starts the handler of a request for
\* /callback in a goroutine of its own.  An authorization code comes once.
Accept ==
    /\ stage = "flow" /\ listener = "open" /\ serve = "serving"
    /\ Len(conns) < MaxRequests
    /\ \E code \in CallbackCodes :
          /\ code = "" \/ \A i \in 1..Len(conns) : conns[i].code # code
          /\ conns' = Append(conns, Conn(code))
    /\ UNCHANGED <<input, output, stage, authVars, fetchVars, oauthCopy, flowPC,
                   selected, listener, serve, routes, codeChan, errChan, history,
                   flowErr, saving>>

\* A connection after its handler returned: kept alive while the server
\* runs, closed once the server shuts down.
connAfterResponse(c, l) ==
    IF c.conn = "closed" \/ l = "closed" THEN "closed" ELSE "idle"

Responded(i) ==
    [conns EXCEPT ![i] = [pc |-> "done", code |-> conns[i].code,
                          conn |-> connAfterResponse(conns[i], listener)]]

\* codeChan <- code, and the page that reports success.
HandlerSendsCode ==
    /\ stage = "flow"
    /\ \E i \in Handling :
          /\ conns[i].code # ""
          /\ \/ /\ flowPC = "parked"
                /\ selected' = Selected("code", conns[i].code)
                /\ flowPC' = "woken"
                /\ codeChan' = codeChan
             \/ /\ flowPC # "parked" /\ Len(codeChan) = 0
                /\ codeChan' = <<conns[i].code>>
                /\ UNCHANGED <<selected, flowPC>>
          /\ conns' = Responded(i)
          /\ history' = [history EXCEPT !.sent = Append(@, i)]
    /\ UNCHANGED <<input, output, stage, authVars, fetchVars, oauthCopy, listener,
                   serve, routes, errChan, flowErr, saving>>

\* errChan <- fmt.Errorf("no code in callback"), and the 400 response.
HandlerSendsError ==
    /\ stage = "flow"
    /\ \E i \in Handling :
          /\ conns[i].code = ""
          /\ \/ /\ flowPC = "parked"
                /\ selected' = Selected("err", NoCodeInCallback)
                /\ flowPC' = "woken"
                /\ errChan' = errChan
             \/ /\ flowPC # "parked" /\ Len(errChan) = 0
                /\ errChan' = <<NoCodeInCallback>>
                /\ UNCHANGED <<selected, flowPC>>
          /\ conns' = Responded(i)
          /\ history' = [history EXCEPT !.sent = Append(@, i)]
    /\ UNCHANGED <<input, output, stage, authVars, fetchVars, oauthCopy, listener,
                   serve, routes, codeChan, flowErr, saving>>

\* server.Serve returns an error of Accept; its deferred Close closes the
\* listener.
ServeFails ==
    /\ stage = "flow" /\ serve = "serving" /\ listener = "open"
    /\ serve' = "failing"
    /\ listener' = "closed"
    /\ UNCHANGED <<input, output, stage, authVars, fetchVars, oauthCopy, flowPC,
                   selected, routes, conns, codeChan, errChan, history, flowErr,
                   saving>>

\* errChan <- err in the goroutine of server.Serve.
ServeSendsError ==
    /\ stage = "flow" /\ serve = "failing"
    /\ \/ /\ flowPC = "parked"
          /\ selected' = Selected("err", AcceptError)
          /\ flowPC' = "woken"
          /\ errChan' = errChan
       \/ /\ flowPC # "parked" /\ Len(errChan) = 0
          /\ errChan' = <<AcceptError>>
          /\ UNCHANGED <<selected, flowPC>>
    /\ serve' = "exited"
    /\ UNCHANGED <<input, output, stage, authVars, fetchVars, oauthCopy, listener,
                   routes, conns, codeChan, history, flowErr, saving>>

\* The five minutes of the flow pass: ctx is done (second copy), the timer
\* of time.After fires (first copy, where nothing after the select looks at
\* it).  A parked select takes the case.
DeadlinePasses ==
    /\ stage = "flow"
    /\ \/ flowPC \in {"select", "parked"}
       \/ oauthCopy = "part_001:438" /\ flowPC \in {"shutdown", "exchange"}
    /\ ~history.deadline
    /\ history' = [history EXCEPT !.deadline = TRUE]
    /\ IF flowPC = "parked"
       THEN selected' = Selected("timeout", "") /\ flowPC' = "woken"
       ELSE UNCHANGED <<selected, flowPC>>
    /\ UNCHANGED <<input, output, stage, authVars, fetchVars, oauthCopy, listener,
                   serve, routes, conns, codeChan, errChan, flowErr, saving>>

\* The cases of the select that are ready.
ReadyCases ==
    (IF Len(codeChan) > 0 THEN {"code"} ELSE {})
        \cup (IF Len(errChan) > 0 THEN {"err"} ELSE {})
        \cup (IF history.deadline THEN {"timeout"} ELSE {})

\* The caller reaches the select: it takes one of the ready cases, or parks
\* when there is none.
Select ==
    /\ stage = "flow" /\ flowPC = "select"
    /\ IF ReadyCases = {}
       THEN /\ flowPC' = "parked"
            /\ UNCHANGED <<selected, codeChan, errChan>>
       ELSE /\ flowPC' = "woken"
            /\ \E case \in ReadyCases :
                  /\ selected' = Selected(case,
                                     IF case = "code" THEN codeChan[1]
                                     ELSE IF case = "err" THEN errChan[1] ELSE "")
                  /\ codeChan' = IF case = "code" THEN <<>> ELSE codeChan
                  /\ errChan' = IF case = "err" THEN <<>> ELSE errChan
    /\ UNCHANGED <<input, output, stage, authVars, fetchVars, oauthCopy, listener,
                   serve, routes, conns, history, flowErr, saving>>

\* A flow that stops the server only when it got a code.
listenerAfterCodeOnly(case) == IF case = "code" THEN "closed" ELSE "open"

\* server.Shutdown (second copy) and server.Close (first copy) close the
\* listener first, on each of the three ways out of the select.
listenerAfter(case) == "closed"

\* The connections after the call: Shutdown closes the idle ones, Close all.
closeConns(copy, cs) ==
    [i \in 1..Len(cs) |->
        IF copy = "part_001:150" \/ cs[i].conn = "idle"
        THEN [cs[i] EXCEPT !.conn = "closed"] ELSE cs[i]]

\* The caller, back from the select, calls server.Shutdown or server.Close.
BeginShutdown ==
    /\ stage = "flow" /\ flowPC = "woken"
    /\ listener' = IF listener = "open" THEN listenerAfter(selected.case) ELSE listener
    /\ serve' = IF serve = "serving" /\ listener' = "closed" THEN "exited" ELSE serve
    /\ conns' = closeConns(oauthCopy, conns)
    /\ flowPC' = "shutdown"
    /\ UNCHANGED <<input, output, stage, authVars, fetchVars, oauthCopy, selected,
                   routes, codeChan, errChan, history, flowErr, saving>>

\* The wait of Shutdown is over: no connection is busy, or its context is
\* done (the five seconds of shutdownCtx after a code, the deadline of the
\* flow after an error or the time-out).  Close does not wait.
shutdownReturns(copy, case, busy, deadline) ==
    \/ copy = "part_001:150"
    \/ busy = {}
    \/ case \in {"code", "timeout"}
    \/ case = "err" /\ deadline

\* A flow that goes on to the exchange after the time-out.
afterSelectTimeoutExchanges(case) == IF case = "err" THEN "returned" ELSE "exchange"

\* after the select: the exchange follows a code, a return anything else.
afterSelect(case) == IF case = "code" THEN "exchange" ELSE "returned"

EndShutdown ==
    /\ stage = "flow" /\ flowPC = "shutdown"
    /\ shutdownReturns(oauthCopy, selected.case, ActiveConns, history.deadline)
    /\ flowPC' = afterSelect(selected.case)
    /\ flowErr' = IF selected.case = "err" THEN selected.val
                  ELSE IF selected.case = "timeout" THEN AuthorizationTimeout
                  ELSE ""
    /\ stderr' = IF oauthCopy = "part_001:438" /\ selected.case = "code"
                    /\ ActiveConns # {}
                 THEN Append(stderr, "warning: failed to shutdown server gracefully: "
                                         \o "context deadline exceeded")
                 ELSE stderr
    /\ UNCHANGED <<input, output, stage, configDir, credFile, dataDir, tokFile,
                   httpRequests, fetchVars, oauthCopy, selected, listener, serve,
                   routes, conns, codeChan, errChan, history, saving>>

\* The context of config.Exchange is done: the deadline of the flow passed
\* (second copy; the first exchanges under context.Background()).
exchangeExpired(copy, deadline) == copy = "part_001:438" /\ deadline

\* config.Exchange fails: return fmt.Errorf("exchange code: %w", err).
FlowExchangeFails ==
    /\ stage = "flow" /\ flowPC = "exchange"
    /\ \E answer \in ExchangeAnswers :
          /\ ~answer.present \/ exchangeExpired(oauthCopy, history.deadline)
          /\ flowErr' = IF exchangeExpired(oauthCopy, history.deadline)
                        THEN "exchange code: context deadline exceeded"
                        ELSE "exchange code: oauth2: cannot fetch token: 400 Bad Request"
          /\ httpRequests' = IF exchangeExpired(oauthCopy, history.deadline)
                             THEN httpRequests ELSE httpRequests + 1
    /\ history' = [history EXCEPT !.exchanged = Append(@, selected.val)]
    /\ flowPC' = "returned"
    /\ UNCHANGED <<input, output, stage, configDir, credFile, dataDir, tokFile, stderr,
                   fetchVars, oauthCopy, selected, listener, serve, routes, conns,
                   codeChan, errChan, saving>>

\* A flow that does not look at the error of SaveToken.
saveResultIgnored(saved) == ""

\* if err := SaveToken(token); err != nil { return fmt.Errorf("save token: %w", err) }
saveResult(saved) == IF saved.err # "" THEN "save token: " \o saved.err ELSE ""

tokenSaved(saved) ==
    /\ dataDir' = saved.dataDir
    /\ tokFile' = saved.tokFile
    /\ flowErr' = saveResult(saved)

\* config.Exchange gives a token and SaveToken stores it, or fails.
FlowExchangeSaves ==
    /\ stage = "flow" /\ flowPC = "exchange"
    /\ ~exchangeExpired(oauthCopy, history.deadline)
    /\ \E answer \in ExchangeAnswers :
          /\ answer.present
          /\ tokenSaved(SaveToken(answer, dataDir, tokFile))
          /\ output' = answer
    /\ httpRequests' = httpRequests + 1
    /\ history' = [history EXCEPT !.exchanged = Append(@, selected.val)]
    /\ flowPC' = "returned"
    /\ UNCHANGED <<input, stage, configDir, credFile, stderr, fetchVars, oauthCopy,
                   selected, listener, serve, routes, conns, codeChan, errChan, saving>>

NextFlow ==
    \/ FlowBindFails
    \/ FlowStartPanics
    \/ FlowStart
    \/ Accept
    \/ HandlerSendsCode
    \/ HandlerSendsError
    \/ ServeFails
    \/ ServeSendsError
    \/ DeadlinePasses
    \/ Select
    \/ BeginShutdown
    \/ EndShutdown
    \/ FlowExchangeFails
    \/ FlowExchangeSaves

SpecFlow == InitFlow /\ [][NextFlow]_vars

(***************************************************************************)
(* RunAuthFlow: the callbacks and the select                               *)
(***************************************************************************)

\* The invocation is past its select, and the select took a callback.
PastSelect == stage = "flow" /\ flowPC \in {"woken", "shutdown", "exchange", "returned"}

Returned == stage = "flow" /\ flowPC = "returned"

CallbackHonored ==
    \/ selected.case = "code"
    \/ selected = Selected("err", NoCodeInCallback)

\* What the select takes when request i is the one that decides.
OutcomeOf(i) ==
    IF conns[i].code # "" THEN Selected("code", conns[i].code)
    ELSE Selected("err", NoCodeInCallback)

\* C23: when the select of RunAuthFlow took a callback, it took the one of
\* the request that arrived first, whatever the order in which the handlers
\* and the select ran.
C23_FirstCallbackHonored ==
    (PastSelect /\ CallbackHonored) => selected = OutcomeOf(1)

\* C23, the part the code keeps: one invocation exchanges at most one code,
\* and it is the code of a request that came.
C23_AtMostOneCodeExchanged ==
    stage = "flow" =>
        /\ Len(history.exchanged) <= 1
        /\ \A k \in 1..Len(history.exchanged) :
              \E i \in 1..Len(conns) : conns[i].code = history.exchanged[k]

\* Two requests came, and the select took what the second one sent.
C23_SecondHonored ==
    /\ PastSelect /\ CallbackHonored /\ Len(conns) >= 2
    /\ selected = OutcomeOf(2) /\ selected # OutcomeOf(1)

\* C24: once the listener of an invocation was bound, it is closed when
\* RunAuthFlow goes on to the exchange and when it returns, whatever the
\* way out: a token saved, an error of a callback or of the server, the
\* time-out, a failed exchange, a failed save.
C24_ListenerClosedOnReturn ==
    (stage = "flow" /\ flowPC \in {"exchange", "returned"} /\ listener # "unbound")
        => listener = "closed"

\* RunAuthFlow returned the error of a callback without a code, the
\* listener closed.
C24_ClosedAfterCallbackError ==
    /\ Returned /\ flowErr = NoCodeInCallback /\ listener = "closed"

\* C25: when the first request that came carries no code, and its handler
\* was the first to send, before the five minutes passed and without an
\* error of the server, RunAuthFlow returns "no code in callback",
\* exchanges nothing and leaves the token file as it was.
C25_NoCodeAborts ==
    (Returned /\ ~history.deadline /\ serve # "failing"
        /\ selected # Selected("err", AcceptError) /\ errChan # <<AcceptError>>
        /\ Len(conns) >= 1 /\ Len(history.sent) >= 1
        /\ conns[1].code = "" /\ history.sent[1] = 1)
        => /\ flowErr = NoCodeInCallback
           /\ history.exchanged = <<>>
           /\ tokFile = history.before

\* C25, the part the code keeps: when the select takes the error of a
\* callback without a code, RunAuthFlow returns that error, exchanges
\* nothing and leaves the token file as it was.
C25_HonoredErrorAborts ==
    (Returned /\ selected = Selected("err", NoCodeInCallback))
        => /\ flowErr = NoCodeInCallback
           /\ history.exchanged = <<>>
           /\ httpRequests = 0
           /\ tokFile = history.before

\* C26: when no request came and the server did not fail, RunAuthFlow
\* returns by the time-out: with the error of the time-out, without an
\* exchange, and with the token file as it was.
C26_TimedOut ==
    (Returned /\ history.browser = 1 /\ conns = <<>> /\ selected.case # "err")
        => /\ selected.case = "timeout"
           /\ history.deadline
           /\ flowErr = AuthorizationTimeout
           /\ history.exchanged = <<>>
           /\ httpRequests = 0
           /\ tokFile = history.before

\* RunAuthFlow timed out without a request, over a token file.
C26_TimedOutReached ==
    /\ Returned /\ conns = <<>> /\ selected.case = "timeout"
    /\ flowErr = AuthorizationTimeout /\ tokFile # NoFile

\* C27: when net.Listen fails, RunAuthFlow returns "start callback server:"
\* with the error of the bind, after that one call of net.Listen, without
\* opening the browser, without a select, without a request accepted or
\* sent, and with the token file as it was.
C27_BindFailureIsFatal ==
    (Returned /\ listener = "unbound")
        => /\ flowErr = "start callback server: " \o BindError
           /\ history.binds = 1
           /\ history.browser = 0
           /\ selected.case = "none" /\ ~history.deadline
           /\ serve = "none" /\ conns = <<>>
           /\ history.exchanged = <<>> /\ httpRequests = 0
           /\ tokFile = history.before

\* RunAuthFlow returned the error of the bind, over a token file.
C27_BindFailed ==
    /\ Returned /\ listener = "unbound" /\ history.binds = 1
    /\ flowErr = "start callback server: " \o BindError /\ tokFile # NoFile

\* C28: RunAuthFlow returns nil only after one exchange that gave a token,
\* with that token in the token file; and when the exchange failed it
\* returns "exchange code: ..." with the token file as it was.
C28_AuthorizedOnlyWhenSaved ==
    /\ (Returned /\ flowErr = "")
           => /\ Len(history.exchanged) = 1 /\ selected.case = "code"
              /\ httpRequests = 1
              /\ output.present
              /\ LoadToken(dataDir, tokFile).err = ""
              /\ LoadToken(dataDir, tokFile).token = output
    /\ (Returned /\ selected.case = "code" /\ flowErr # ""
           /\ ~HasPrefixAt(flowErr, 1, "save token: "))
           => /\ HasPrefixAt(flowErr, 1, "exchange code: ")
              /\ tokFile = history.before

\* RunAuthFlow returned nil, the new token in place of an older record.
C28_Authorized ==
    /\ Returned /\ flowErr = "" /\ history.before # NoFile
    /\ LoadToken(dataDir, tokFile).token = TokenB
    /\ tokFile # history.before

\* The handlers that cannot send any more once the caller is past its
\* select: the slot of their channel is taken and nobody receives.
BlockedHandlers ==
    {i \in Handling : IF conns[i].code = "" THEN Len(errChan) = 1
                      ELSE Len(codeChan) = 1}

\* The goroutine of server.Serve, in the same position with its error.
ServeBlocked == serve = "failing" /\ Len(errChan) = 1

\* C29: after RunAuthFlow returned, no handler and no goroutine of
\* server.Serve of that invocation is left with a send that cannot
\* complete, and so no connection is left with such a handler.
C29_NothingHeld ==
    Returned => BlockedHandlers = {} /\ ~ServeBlocked

\* C29, the part the first copy keeps: server.Close leaves no connection
\* open.
C29_CloseLeavesNoConnection ==
    (Returned /\ oauthCopy = "part_001:150") => OpenConns = {}

\* RunAuthFlow of the second copy returned; a handler is blocked on its
\* send and its connection is open.
C29_ConnectionHeld ==
    /\ Returned /\ oauthCopy = "part_001:438"
    /\ \E i \in BlockedHandlers : conns[i].conn = "active"

\* C30: no invocation puts its route on the route table of the process, and
\* none ends in the panic of a second registration.
C30_OwnRouter ==
    stage = "flow" => routes = {} /\ flowPC # "panicked"

\* C30, for the copy with a mux of its own.
C30_OwnRouterSecondCopy ==
    (stage = "flow" /\ oauthCopy = "part_001:438")
        => routes = {} /\ flowPC # "panicked"

\* The second copy, in its second invocation, at the select.
C30_SecondInvocation ==
    /\ stage = "flow" /\ oauthCopy = "part_001:438"
    /\ history.invocation = 2 /\ flowPC = "parked"

(***************************************************************************)
(* RunAuthFlow: termination.  The goroutine of the caller runs and the     *)
(* timers fire (weak fairness of the steps of the caller and of the        *)
(* deadline); nothing is assumed of the browser or of the token endpoint,  *)
(* which may never send a request or an answer.                            *)
(***************************************************************************)

\* config.Exchange returns the error of its context when the deadline of
\* the flow passed.
FlowExchangeExpires ==
    FlowExchangeFails /\ exchangeExpired(oauthCopy, history.deadline)

SpecFlowLive ==
    /\ InitFlow /\ [][NextFlow]_vars
    /\ WF_vars(DeadlinePasses)
    /\ WF_vars(Select)
    /\ WF_vars(BeginShutdown)
    /\ WF_vars(EndShutdown)
    /\ WF_vars(FlowExchangeExpires)

\* The caller is inside RunAuthFlow, the listener bound.
InFlight ==
    stage = "flow" /\ flowPC \in {"select", "parked", "woken", "shutdown", "exchange"}

\* C31: an invocation of RunAuthFlow that bound its listener returns in the
\* end, whatever the browser and the token endpoint do.
C31_EventuallyReturns == InFlight ~> Returned

\* C31, the part the second copy keeps: the select, the shutdown and the
\* exchange all end by the deadline of ctx at the latest.
C31_SecondCopyReturns ==
    (InFlight /\ oauthCopy = "part_001:438") ~> Returned

\* C31, the first copy up to the exchange: the select ends by its timer and
\* server.Close does not wait.
C31_FirstCopyLeavesTheWait ==
    (InFlight /\ oauthCopy = "part_001:150") ~> (Returned \/ flowPC = "exchange")

(***************************************************************************)
(* The session and the event pipeline                                      *)
(***************************************************************************)

\* What GetClient can return in the present file system, for the clocks and
\* the answers of the token endpoint.
GetClientResults ==
    {GetClient(configDir, credFile, dataDir, tokFile, Clock(now), refresh) :
        now \in Nows, refresh \in FetchRefreshAnswers}

\* The step carries the effects of this return of GetClient.
ReturnedHere(got) ==
    /\ dataDir' = got.dataDir /\ tokFile' = got.tokFile
    /\ httpRequests' = got.requests /\ stderr' = got.stderr

\* C32: FetchTodayEvents, FetchUpcomingEvents and ListCalendars send a
\* request to the calendar API only after GetClient returned without an
\* error; when GetClient returned an error the operation ends at once with
\* the error response NOT_CONFIGURED and no request.
C32_GetClientGates ==
    [][ /\ (pc = "idle" /\ (queried' # <<>> \/ pc' = "querying"))
               => \E got \in GetClientResults : got.err = "" /\ ReturnedHere(got)
        /\ (pc = "idle" /\ \A got \in GetClientResults : ReturnedHere(got) => got.err # "")
               => /\ queried' = <<>> /\ pc' \in {"done", "listed"}
                  /\ ~response'.Success /\ response'.Error = ErrNotConfigured
                  /\ response'.Message # ""
        /\ (pc # "idle" /\ queried' # queried) => pc = "querying"
      ]_vars

\* ListCalendars returned NOT_CONFIGURED after a refresh that was refused,
\* without a request to the calendar API.
C32_RefusedBeforeAnyRequest ==
    /\ pc = "listed" /\ ~response.Success /\ response.Error = ErrNotConfigured
    /\ httpRequests = 1 /\ queried = <<>>

\* The step is one in which GetClient returned a client with a token it got
\* by a refresh, and the token file holds that token.
RefreshedHere ==
    \E got \in GetClientResults :
        /\ ReturnedHere(got) /\ got.err = ""
        /\ got.client.token.AccessToken # LoadToken(dataDir, tokFile).token.AccessToken
        /\ LoadToken(dataDir', tokFile').token = got.client.token

\* C33: in FetchTodayEvents, FetchUpcomingEvents and ListCalendars the
\* credential file is never written; the token file is written only by
\* GetClient, in the step in which it refreshed the token; the queries, the
\* conversion, the merge, the sort and the conflict pass leave both files
\* as they are, and ListCalendars changes nothing beyond what its GetClient
\* did.
C33_OnlyGetClientWrites ==
    [][ /\ credFile' = credFile /\ configDir' = configDir
        /\ pc # "idle" => (tokFile' = tokFile /\ dataDir' = dataDir)
        /\ pc = "idle" => \E got \in GetClientResults : ReturnedHere(got)
        /\ tokFile' # tokFile => (pc = "idle" /\ RefreshedHere)
      ]_vars

\* A fetch refreshed the token, stored it, and queried a calendar.
C33_RefreshedThenQueried ==
    /\ Succeeded /\ Len(queried) >= 1 /\ httpRequests = 1
    /\ LoadToken(dataDir, tokFile).token.AccessToken = TokenB.AccessToken

\* C33 as it is worded: the steps of the pipeline after the session, and
\* ListCalendars, leave the credential file and the token file unchanged.
C33_AsStated ==
    [][ /\ credFile' = credFile
        /\ pc # "idle" => tokFile' = tokFile
        /\ pc' = "listed" => tokFile' = tokFile
      ]_vars

\* C33, the Authorization Flow: the token file changes only in the step
\* that ends the flow with a token exchanged and saved, and the credential
\* file never.
C33_FlowWritesOnSuccess ==
    [][ /\ credFile' = credFile
        /\ tokFile' # tokFile
               => /\ flowPC = "exchange" /\ flowPC' = "returned" /\ flowErr' = ""
                  /\ LoadToken(dataDir', tokFile').token = output'
      ]_vars

\* C33, the other operations of oauth.go: SaveToken and GetClient are the
\* ones that change the token file, and none changes the credential file.
C33_AuthWriters ==
    [][ /\ credFile' = credFile
        /\ tokFile' # tokFile
               => input'[Len(input')].fn \in {"SaveToken", "GetClient"}
      ]_vars

(***************************************************************************)
(* types.go (unnamed/part_001): NewErrorResponse and NewSuccessResponse.   *)
(***************************************************************************)

\* The greatest number of events given to NewSuccessResponse.
MaxResponseEvents == 2

\* t.Format(time.RFC3339): the layout "2006-01-02T15:04:05Z07:00", without
\* the fraction of the second.
FormatRFC3339(t) ==
    Pad4(t.Y) \o "-" \o Pad2(t.M) \o "-" \o Pad2(t.D) \o "T"
        \o Pad2(t.h) \o ":" \o Pad2(t.m) \o ":" \o Pad2(t.s) \o FormatZone(t.off)

\* The readings of time.Now(): UTC, zones east and west of it, with and
\* without a fraction of a second.
ResponseClocks ==
    { Time(2024, 1, 15, 9, 0, 0, 0, 0),
      Time(2024, 1, 15, 12, 30, 0, 500000000, 7200),
      Time(2024, 12, 31, 23, 59, 59, 999999999, -18000),
      Time(2024, 2, 29, 0, 0, 0, 0, 19800) }

ResponseCodes == {"", ErrNotConfigured, ErrTokenExpired, ErrNetworkError, ErrAPIError}

ResponseMessages == {"", "credentials not found", "failed to fetch events"}

ResponseEvents ==
    { Event("event1", "Test Event", "2024-01-15T14:00:00Z", "2024-01-15T15:00:00Z",
            <<>>, 0, "", FALSE, "accepted"),
      Event("event2", "Review", "2024-01-15T14:30:00Z", "2024-01-15T15:30:00Z",
            <<"bob@example.com">>, 1, "https://meet.google.com/abc-defg-hij", TRUE,
            "accepted"),
      Event("event3", "", "invalid-time", "", <<>>, 0, "", FALSE, "accepted") }

ResponseInputs ==
    {[fn |-> "NewErrorResponse", code |-> c, message |-> msg] :
        c \in ResponseCodes, msg \in ResponseMessages}
    \cup {[fn |-> "NewSuccessResponse", events |-> es, now |-> t] :
            es \in SeqsUpTo(ResponseEvents, MaxResponseEvents), t \in ResponseClocks}

InitResponse ==
    /\ input \in ResponseInputs
    /\ output = NewErrorResponse("", "")
    /\ stage = "drawn"
    /\ FetchOff
    /\ AuthOff
    /\ FlowOff

ApplyNewErrorResponse ==
    /\ stage = "drawn" /\ input.fn = "NewErrorResponse"
    /\ output' = NewErrorResponse(input.code, input.message)
    /\ stage' = "applied"
    /\ UNCHANGED <<input, fetchVars, authVars, flowVars>>

ApplyNewSuccessResponse ==
    /\ stage = "drawn" /\ input.fn = "NewSuccessResponse"
    /\ output' = NewSuccessResponse(input.events, FormatRFC3339(input.now))
    /\ stage' = "applied"
    /\ UNCHANGED <<input, fetchVars, authVars, flowVars>>

NextResponse ==
    \/ ApplyNewErrorResponse
    \/ ApplyNewSuccessResponse

SpecResponse == InitResponse /\ [][NextResponse]_vars

\* C34: NewErrorResponse(code, message) has Success false, the code and the
\* message given, no events and no lastSync; NewSuccessResponse(events) has
\* Success true, the events given in their order, a lastSync that is not
\* empty and parses as RFC3339 to the second of the clock, and an empty
\* error and message.
C34_ResponseShape ==
    /\ (stage = "applied" /\ input.fn = "NewErrorResponse")
           => /\ ~output.Success
              /\ output.Error = input.code /\ output.Message = input.message
              /\ output.Events = <<>> /\ output.LastSync = ""
    /\ (stage = "applied" /\ input.fn = "NewSuccessResponse")
           => /\ output.Success
              /\ output.Events = input.events
              /\ output.LastSync # ""
              /\ ParseLayout(output.LastSync).ok
              /\ ParseLayout(output.LastSync).instant = Unix(input.now)
              /\ output.Error = "" /\ output.Message = ""

\* A success response with two events, made at 12:30:00.5 +02:00.
C34_SuccessWithEvents ==
    /\ stage = "applied" /\ input.fn = "NewSuccessResponse"
    /\ Len(output.Events) = 2 /\ output.Events[1] # output.Events[2]
    /\ output.LastSync = "2024-01-15T12:30:00+02:00"

\* C34, the responses of the fetches: Success is true exactly when the
\* error code is empty, and an error response has a code, a message and
\* no events.
C34_FetchResponses ==
    pc = "done" =>
        /\ response.Success <=> response.Error = ""
        /\ ~response.Success
               => /\ response.Error \in {ErrNotConfigured, ErrAPIError}
                  /\ response.Message # "" /\ response.Events = <<>>
        /\ response.Success
               => /\ response.Events = allEvents /\ response.Message = ""
                  /\ ParseLayout(response.LastSync).ok

(***************************************************************************)
(* extractMeetingURL: the order of the patterns                            *)
(***************************************************************************)

\* The recognized hosts in the order of the claim.
HostOrder == <<"zoom.us/", "meet.google.com/", "teams.microsoft.com/", "webex.com/">>

PatternOf(host) ==
    meetingPatterns[CHOOSE k \in 1..Len(meetingPatterns) : meetingPatterns[k].host = host]

\* The places of the text where a match of the pattern of the host starts.
MatchStarts(host, text) ==
    {i \in 1..Len(text) : MatchEndAt(PatternOf(host), text, i) > 0}

\* The hosts, by their place in HostOrder, that have a match in the text.
HostsFound(text) ==
    {k \in 1..Len(HostOrder) : MatchStarts(HostOrder[k], text) # {}}

Least(S) == CHOOSE c \in S : \A d \in S : c <= d

\* The match of the first host of HostOrder found in the text that starts
\* leftmost.
FirstHostLeftmost(text) ==
    LET host == HostOrder[Least(HostsFound(text))]
        i    == Least(MatchStarts(host, text))
    IN  SubSeq(text, i, MatchEndAt(PatternOf(host), text, i))

\* C35: without a direct video link and without a video entry point,
\* extractMeetingURL returns the match of the first of zoom.us,
\* meet.google.com, teams.microsoft.com, webex.com that has one in
\* description + " " + location, wherever the URLs of the other hosts
\* stand, and of that host the match that starts leftmost; "" when no
\* host has one.
C35_PatternOrder ==
    (stage = "applied" /\ input.HangoutLink = "" /\ VideoEntryPoints(input) = <<>>)
        => IF HostsFound(SearchText(input)) = {} THEN output = ""
           ELSE output = FirstHostLeftmost(SearchText(input))

\* Three hosts in the text, webex first and zoom last, in the location: the
\* zoom URL is returned.
C35_LaterInTextWins ==
    /\ stage = "applied" /\ input.HangoutLink = "" /\ VideoEntryPoints(input) = <<>>
    /\ HostsFound(SearchText(input)) = {1, 2, 4}
    /\ Least(MatchStarts(HostOrder[4], SearchText(input)))
           < Least(MatchStarts(HostOrder[1], SearchText(input)))
    /\ output = "https://us02web.zoom.us/j/55"

\* Two zoom URLs, one in the description and one in the location: the one
\* of the description is returned.
C35_DescriptionBeforeLocation ==
    /\ stage = "applied" /\ input.HangoutLink = "" /\ VideoEntryPoints(input) = <<>>
    /\ input.Location = "https://us02web.zoom.us/j/55"
    /\ output = "https://zoom.us/j/123456789"

(***************************************************************************)
(* RunAuthFlow: the deadline after the code                                *)
(***************************************************************************)

ExchangeDeadlineError == "exchange code: context deadline exceeded"

\* C36: once the select took a code, the five minutes of the wait do not
\* make RunAuthFlow fail: it does not return the error of an exchange cut
\* off by the deadline.
C36_DeadlineAfterCodeHarmless ==
    (Returned /\ selected.case = "code") => flowErr # ExchangeDeadlineError

\* C36, the part the first copy keeps: its exchange runs under
\* context.Background(), and after a code RunAuthFlow returns nil, the
\* error of the token endpoint, or the error of the save.
C36_FirstCopyExchange ==
    (Returned /\ selected.case = "code" /\ oauthCopy = "part_001:150")
        => \/ flowErr = "" /\ output.present
           \/ flowErr = "exchange code: oauth2: cannot fetch token: 400 Bad Request"
           \/ HasPrefixAt(flowErr, 1, "save token: ")

\* The second copy took a code before the deadline, and returned the error
\* of the deadline from the exchange after the shutdown had waited.
C36_CutOffReached ==
    /\ Returned /\ selected.case = "code" /\ oauthCopy = "part_001:438"
    /\ flowErr = ExchangeDeadlineError /\ Len(stderr) = 1

(***************************************************************************)
(* The merged list of a fetch over several calendars                       *)
(***************************************************************************)

\* C37: in the events of a successful fetch response no id occurs twice,
\* and an event that is flagged overlaps an event with another id.
C37_DistinctIds ==
    Succeeded =>
        /\ \A i, j \in 1..Len(response.Events) :
              response.Events[i].ID = response.Events[j].ID => i = j
        /\ \A i \in 1..Len(response.Events) :
              response.Events[i].HasConflict
                  => \E j \in 1..Len(response.Events) :
                        /\ response.Events[j].ID # response.Events[i].ID
                        /\ PairConflict(response.Events[i], response.Events[j])

\* C37, the part the code keeps: the events of one calendar keep the ids
\* the provider gave them, which are distinct.
C37_OneCalendarDistinct ==
    (Succeeded /\ Len(queried) = 1) =>
        \A i, j \in 1..Len(response.Events) :
            response.Events[i].ID = response.Events[j].ID => i = j

\* Two calendars returned the same event and nothing else: the response
\* holds it twice, each copy flagged.
C37_FlaggedByItself ==
    /\ Succeeded /\ Len(queried) = 2 /\ Len(response.Events) = 2
    /\ response.Events[1].ID = response.Events[2].ID
    /\ response.Events[1].HasConflict /\ response.Events[2].HasConflict

(***************************************************************************)
(* convertEvent: outcomes                                                  *)
(***************************************************************************)

\* C38: convertEvent ends with a record or with a discard for every raw
\* event, those without a start or end structure included.
C38_RecordOrDiscard ==
    stage = "applied" => output.kind \in {"event", "nil"}

\* C38, the part the code keeps: a raw event that is cancelled, or has both
\* its start and its end structure, is converted or discarded.
C38_WellFormedRecordOrDiscard ==
    (stage = "applied"
        /\ (input.Status = "cancelled" \/ (input.Start.present /\ input.End.present)))
        => output.kind \in {"event", "nil"}

\* A confirmed event with a time-of-day start and no end structure, which
\* the caller accepted: the conversion dereferences nil.
C38_AbsentEndCrashes ==
    /\ stage = "applied" /\ input.Status = "confirmed"
    /\ input.Start.present /\ input.Start.DateTime # "" /\ ~input.End.present
    /\ output.kind = "panic"

\* C38, in a fetch: an item without start structure ends the fetch in the
\* panic, without a response.
C38_FetchAborted ==
    /\ pc = "panicked" /\ response = NewErrorResponse("", "")

(***************************************************************************)
(* detectConflicts: what it leaves alone                                   *)
(***************************************************************************)

Unflag(e) == [e EXCEPT !.HasConflict = FALSE]

\* C39: detectConflicts keeps the length and the order of the list and
\* every field but HasConflict, and a flag that was true stays true.
C39_OnlyFlagsChange ==
    stage = "applied" =>
        /\ Len(output) = Len(input)
        /\ \A k \in 1..Len(input) :
              /\ Unflag(output[k]) = Unflag(input[k])
              /\ input[k].HasConflict => output[k].HasConflict

\* A list of three: an event flagged before the pass that overlaps nothing
\* keeps its flag, and two that overlap get theirs.
C39_FlagKeptAndFlagsSet ==
    /\ stage = "applied" /\ Len(input) = 3
    /\ \E k \in 1..3 :
          /\ input[k].HasConflict /\ output[k].HasConflict
          /\ \A j \in (1..3) \ {k} :
                /\ ~PairConflict(input[k], input[j])
                /\ ~input[j].HasConflict /\ output[j].HasConflict

(***************************************************************************)
(* convertEvent: what is kept                                              *)
(***************************************************************************)

\* The raw event passes every filter of the claim.
Qualifies(item) ==
    /\ item.Status # "cancelled"
    /\ item.Start.present /\ item.Start.DateTime # ""
    /\ QualifyingAttendees(item) # <<>>
    /\ SelfResponseStatus(item) = "accepted"

\* The record carries the id, title, start and end of the raw event, and
\* no conflict flag.
Carries(e, item) ==
    /\ e.ID = item.Id /\ e.Title = item.Summary
    /\ e.Start = item.Start.DateTime /\ e.End = item.End.DateTime
    /\ ~e.HasConflict

\* C40: every raw event that is not cancelled, has a time-of-day start, a
\* non-self attendee with an address, and "accepted" as the caller's
\* response status yields a record with its id, title, start and end, and
\* hasConflict false.
C40_QualifyingYieldsRecord ==
    (stage = "applied" /\ Qualifies(input))
        => output.kind = "event" /\ Carries(output.event, input)

\* C40, the part the code keeps: such a raw event yields that record when
\* it has an end structure.
C40_QualifyingWithEndYieldsRecord ==
    (stage = "applied" /\ Qualifies(input) /\ input.End.present)
        => output.kind = "event" /\ Carries(output.event, input)

\* Such a raw event without end structure: no record.
C40_QualifyingCrashes ==
    /\ stage = "applied" /\ Qualifies(input) /\ ~input.End.present
    /\ output.kind = "panic"

\* How often the event occurs in the list, the conflict flag left aside.
Occurrences(e, events) ==
    Cardinality({k \in 1..Len(events) : Unflag(events[k]) = Unflag(e)})

\* C40, the merged set: a successful response holds the records of the
\* calendars that answered, each as often as the calendars gave it, and
\* nothing else.
C40_MergedHoldsEachRecord ==
    Succeeded =>
        /\ Len(response.Events) = Len(Merged)
        /\ \A k \in 1..Len(Merged) :
              Occurrences(Merged[k], response.Events) = Occurrences(Merged[k], Merged)

====
